---- MODULE Spec2Model ----
(***************************************************************************)
(* A model of the chess rules engine (src/engine.py) and of the            *)
(* depth-limited search that drives it (src/movefinder.py).                *)
(*                                                                         *)
(* A piece is the pair <<colour, kind>> for the two characters of the      *)
(* source's strings ("wK" is <<"w","K">>, "--" is <<"-","-">>); the board  *)
(* is a tuple of 8 rows of 8 pieces, read with rows and columns 0..7 as in *)
(* the source.  A GameState object is a record with the source's field     *)
(* names; every method is an operator from the object to the object it     *)
(* leaves behind (and the value it returns).                               *)
(***************************************************************************)
EXTENDS Integers, Sequences, FiniteSets, TLC

(***************************************************************************)
(* Pieces and the board                                                    *)
(***************************************************************************)
EMPTY == <<"-", "-">>

Piece(colour, kind) == <<colour, kind>>

At(board, row, col) == board[row + 1][col + 1]

(* Sequencing: what follows a call works on the value the call returned.   *)
(* Then(e, F) is F applied to the value of e.                              *)
Then(e, F(_)) == CHOOSE after \in {F(before) : before \in {e}} : TRUE

Put(board, row, col, piece) == [board EXCEPT ![row + 1][col + 1] = piece]

OnBoard(row, col) == 0 <= row /\ row < 8 /\ 0 <= col /\ col < 8

Abs(x) == IF x < 0 THEN -x ELSE x

InitialBoard ==
    << << <<"b","R">>, <<"b","N">>, <<"b","B">>, <<"b","Q">>,
          <<"b","K">>, <<"b","B">>, <<"b","N">>, <<"b","R">> >>,
       << <<"b","P">>, <<"b","P">>, <<"b","P">>, <<"b","P">>,
          <<"b","P">>, <<"b","P">>, <<"b","P">>, <<"b","P">> >>,
       << EMPTY, EMPTY, EMPTY, EMPTY, EMPTY, EMPTY, EMPTY, EMPTY >>,
       << EMPTY, EMPTY, EMPTY, EMPTY, EMPTY, EMPTY, EMPTY, EMPTY >>,
       << EMPTY, EMPTY, EMPTY, EMPTY, EMPTY, EMPTY, EMPTY, EMPTY >>,
       << EMPTY, EMPTY, EMPTY, EMPTY, EMPTY, EMPTY, EMPTY, EMPTY >>,
       << <<"w","P">>, <<"w","P">>, <<"w","P">>, <<"w","P">>,
          <<"w","P">>, <<"w","P">>, <<"w","P">>, <<"w","P">> >>,
       << <<"w","R">>, <<"w","N">>, <<"w","B">>, <<"w","Q">>,
          <<"w","K">>, <<"w","B">>, <<"w","N">>, <<"w","R">> >> >>

CastleRights(wks, bks, wqs, bqs) ==
    [wks |-> wks, bks |-> bks, wqs |-> wqs, bqs |-> bqs]

(* GameState.__init__ *)
NewGameState ==
    [ board |-> InitialBoard,
      white_to_move |-> TRUE,
      move_log |-> << >>,
      white_king_location |-> <<7, 4>>,
      black_king_location |-> <<0, 4>>,
      checkmate |-> FALSE,
      stalemate |-> FALSE,
      pins |-> << >>,
      checks |-> << >>,
      en_passant_possible |-> << >>,
      current_castling_rights |-> CastleRights(TRUE, TRUE, TRUE, TRUE),
      castle_rights_log |-> << CastleRights(TRUE, TRUE, TRUE, TRUE) >> ]

(***************************************************************************)
(* Move                                                                    *)
(***************************************************************************)
(* Move.__init__: the snapshots are read from the board at construction.   *)
Move(startSq, endSq, board, enPassant, castle) ==
    LET moved == At(board, startSq[1], startSq[2])
    IN  [ start_row |-> startSq[1],
          start_col |-> startSq[2],
          end_row |-> endSq[1],
          end_col |-> endSq[2],
          piece_moved |-> moved,
          piece_captured |-> At(board, endSq[1], endSq[2]),
          is_en_passant_move |-> enPassant,
          castle |-> castle,
          is_pawn_promotion |->
              \/ (moved = <<"w","P">> /\ endSq[1] = 0)
              \/ (moved = <<"b","P">> /\ endSq[1] = 7),
          moveID |-> startSq[1] * 1000 + startSq[2] * 100
                     + endSq[1] * 10 + endSq[2] ]

(***************************************************************************)
(* make_move / undo_move / update_castle_rights                            *)
(***************************************************************************)
(* A faulty variant of update_castle_rights that also takes the right away *)
(* when the rook is captured on its corner.                                *)
RightsLostWithRook(rights, move) ==
    LET lost == IF move.piece_moved[2] = "K"
                THEN {move.piece_moved[1] \o "ks", move.piece_moved[1] \o "qs"}
                ELSE {}
        gone == {n \in {"wks", "wqs", "bks", "bqs"} :
                   \/ /\ move.piece_moved[2] = "R"
                      /\ move.start_row = (IF n \in {"wks", "wqs"} THEN 7 ELSE 0)
                      /\ move.start_col = (IF n \in {"wks", "bks"} THEN 7 ELSE 0)
                      /\ move.piece_moved[1]
                            = (IF n \in {"wks", "wqs"} THEN "w" ELSE "b")
                   \/ /\ move.piece_captured[2] = "R"
                      /\ move.end_row = (IF n \in {"wks", "wqs"} THEN 7 ELSE 0)
                      /\ move.end_col = (IF n \in {"wks", "bks"} THEN 7 ELSE 0)
                      /\ move.piece_captured[1]
                            = (IF n \in {"wks", "wqs"} THEN "w" ELSE "b")}
    IN  [n \in {"wks", "wqs", "bks", "bqs"} |->
            rights[n] /\ n \notin (lost \cup gone)]

update_castle_rights(rights, move) ==
    IF move.piece_moved = <<"w","K">>
    THEN [rights EXCEPT !.wks = FALSE, !.wqs = FALSE]
    ELSE IF move.piece_moved = <<"b","K">>
    THEN [rights EXCEPT !.bks = FALSE, !.bqs = FALSE]
    ELSE IF move.piece_moved = <<"w","R">>
    THEN IF move.start_row = 7
         THEN IF move.start_col = 0 THEN [rights EXCEPT !.wqs = FALSE]
              ELSE IF move.start_col = 7 THEN [rights EXCEPT !.wks = FALSE]
              ELSE rights
         ELSE rights
    ELSE IF move.piece_moved = <<"b","R">>
    THEN IF move.start_row = 0
         THEN IF move.start_col = 0 THEN [rights EXCEPT !.bqs = FALSE]
              ELSE IF move.start_col = 7 THEN [rights EXCEPT !.bks = FALSE]
              ELSE rights
         ELSE rights
    ELSE rights

(* The board after make_move's assignments, in the source's order.  The   *)
(* side to move is already flipped when the en-passant branch reads it.   *)
MakeMoveBoard(self, move, promoted_piece) ==
    LET wtm == ~self.white_to_move
        b1 == Put(Put(self.board, move.start_row, move.start_col, EMPTY),
                  move.end_row, move.end_col, move.piece_moved)
        direction == IF wtm THEN -1 ELSE 1
        b2 == IF move.is_en_passant_move
              THEN Put(Put(Put(b1, move.end_row, move.end_col, move.piece_moved),
                           move.start_row, move.start_col, EMPTY),
                       move.end_row + direction, move.end_col, EMPTY)
              ELSE b1
        b3 == IF move.is_pawn_promotion
              THEN Put(b2, move.end_row, move.end_col,
                       Piece(move.piece_moved[1], promoted_piece))
              ELSE b2
        b4 == IF move.castle
              THEN IF move.end_col - move.start_col = 2
                   THEN Put(Put(b3, move.end_row, move.end_col - 1,
                                At(b3, move.end_row, move.end_col + 1)),
                            move.end_row, move.end_col + 1, EMPTY)
                   ELSE Put(Put(b3, move.end_row, move.end_col + 1,
                                At(b3, move.end_row, move.end_col - 2)),
                            move.end_row, move.end_col - 2, EMPTY)
              ELSE b3
    IN  b4

(* A faulty variant of the en passant rights statement that keeps the old  *)
(* target when the move is no two-square pawn advance.                     *)
EnPassantKept(self, move) ==
    IF move.piece_moved[2] = "P" /\ Abs(move.start_row - move.end_row) = 2
    THEN <<(move.start_row + move.end_row) \div 2, move.start_col>>
    ELSE self.en_passant_possible

(* make_move's `en passant rights` statement: the target after the move. *)
EnPassantAfter(self, move) ==
    IF move.piece_moved[2] = "P" /\ Abs(move.start_row - move.end_row) = 2
    THEN <<(move.start_row + move.end_row) \div 2, move.start_col>>
    ELSE << >>

(* make_move(move, human_turn): promoted_piece is what the prompt returned *)
(* on a human turn and "Q" otherwise; it is read only for a promotion.     *)
make_move(self, move, promoted_piece) ==
    LET rights == update_castle_rights(self.current_castling_rights, move)
    IN  [self EXCEPT
          !.board = MakeMoveBoard(self, move, promoted_piece),
          !.move_log = Append(self.move_log, move),
          !.white_to_move = ~self.white_to_move,
          !.white_king_location =
              IF move.piece_moved = <<"w","K">>
              THEN <<move.end_row, move.end_col>> ELSE @,
          !.black_king_location =
              IF move.piece_moved = <<"b","K">>
              THEN <<move.end_row, move.end_col>> ELSE @,
          !.en_passant_possible = EnPassantAfter(self, move),
          !.current_castling_rights = rights,
          !.castle_rights_log = Append(self.castle_rights_log, rights)]

(* make_move raises IndexError in its castle branch when the rook's        *)
(* column of a king-side castle is off the board.                          *)
MakeMoveRaises(move) ==
    /\ move.castle
    /\ move.end_col - move.start_col = 2
    /\ move.end_col + 1 > 7

(* The object make_move leaves behind when it raises: the statements up to *)
(* the castle branch have run, the castling rights are not yet updated.    *)
MakeMoveRaised(self, move, promoted_piece) ==
    [self EXCEPT
      !.board = MakeMoveBoard(self, [move EXCEPT !.castle = FALSE],
                              promoted_piece),
      !.move_log = Append(self.move_log, move),
      !.white_to_move = ~self.white_to_move,
      !.white_king_location =
          IF move.piece_moved = <<"w","K">>
          THEN <<move.end_row, move.end_col>> ELSE @,
      !.black_king_location =
          IF move.piece_moved = <<"b","K">>
          THEN <<move.end_row, move.end_col>> ELSE @,
      !.en_passant_possible = EnPassantAfter(self, move)]

(* A faulty variant of undo_move's board assignments that puts back the    *)
(* moved and the captured piece only.                                      *)
UndoTwoSquares(self, move) ==
    Put(Put(self.board, move.start_row, move.start_col, move.piece_moved),
        move.end_row, move.end_col, move.piece_captured)

UndoMoveBoard(self, move) ==
    LET b1 == Put(Put(self.board, move.start_row, move.start_col, move.piece_moved),
                  move.end_row, move.end_col, move.piece_captured)
        captured_pawn_row ==
            move.end_row + (IF move.piece_moved = <<"w","P">> THEN 1 ELSE -1)
        b2 == IF move.is_en_passant_move
              THEN Put(Put(Put(b1, move.start_row, move.start_col, move.piece_moved),
                           move.end_row, move.end_col, EMPTY),
                       captured_pawn_row, move.end_col,
                       IF move.piece_moved = <<"w","P">>
                       THEN <<"b","P">> ELSE <<"w","P">>)
              ELSE b1
        b3 == IF move.castle
              THEN IF move.end_col - move.start_col = 2
                   THEN Put(Put(b2, move.end_row, move.end_col + 1,
                                At(b2, move.end_row, move.end_col - 1)),
                            move.end_row, move.end_col - 1, EMPTY)
                   ELSE Put(Put(b2, move.end_row, move.end_col - 2,
                                At(b2, move.end_row, move.end_col + 1)),
                            move.end_row, move.end_col + 1, EMPTY)
              ELSE b2
    IN  b3

(* A faulty variant of undo_move's restore that reads the entry the undone *)
(* move appended, castle_rights_log[-1].                                   *)
UndoRightsFromTop(self) ==
    LET newRights == self.castle_rights_log[Len(self.castle_rights_log)]
    IN  CastleRights(newRights.wks, newRights.bks, newRights.wqs, newRights.bqs)

(* undo_move's `newRights = self.castle_rights_log[-2]`, copied. *)
UndoRights(self) ==
    LET newRights == self.castle_rights_log[Len(self.castle_rights_log) - 1]
    IN  CastleRights(newRights.wks, newRights.bks, newRights.wqs, newRights.bqs)

(* The body of undo_move, run when the log is not empty. *)
UndoLast(self) ==
    LET move == self.move_log[Len(self.move_log)]
    IN  [self EXCEPT
               !.move_log = SubSeq(self.move_log, 1, Len(self.move_log) - 1),
               !.board = UndoMoveBoard(self, move),
               !.white_to_move = ~self.white_to_move,
               !.white_king_location =
                   IF move.piece_moved = <<"w","K">>
                   THEN <<move.end_row, move.end_col>> ELSE @,
               !.black_king_location =
                   IF move.piece_moved = <<"b","K">>
                   THEN <<move.end_row, move.end_col>> ELSE @,
               !.castle_rights_log =
                   SubSeq(self.castle_rights_log, 1,
                          Len(self.castle_rights_log) - 1),
               !.current_castling_rights = UndoRights(self)]

(* A faulty variant of undo_move that passes the turn when the log is      *)
(* empty.                                                                  *)
UndoOrPassTurn(self) ==
    IF Len(self.move_log) # 0 THEN UndoLast(self)
    ELSE [self EXCEPT !.white_to_move = ~self.white_to_move]

undo_move(self) == IF Len(self.move_log) # 0 THEN UndoLast(self) ELSE self

(***************************************************************************)
(* Attack / pin analysis                                                   *)
(***************************************************************************)
directions ==
    << <<-1, 0>>, <<0, -1>>, <<1, 0>>, <<0, 1>>,
       <<-1, -1>>, <<-1, 1>>, <<1, -1>>, <<1, 1>> >>

knight_moves ==
    << <<-2, -1>>, <<-2, 1>>, <<-1, -2>>, <<-1, 2>>,
       <<1, -2>>, <<1, 2>>, <<2, -1>>, <<2, 1>> >>

NoHit == [pin |-> << >>, check |-> << >>]

(* A faulty variant of the test on an enemy piece that lets a bishop       *)
(* attack along the ranks and files as well.                               *)
AttacksBishopAnyLine(type, enemy_color, j, i) ==
    \/ (0 <= j /\ j <= 3 /\ type = "R")
    \/ type = "B"
    \/ (i = 1 /\ type = "P"
        /\ \/ (enemy_color = "w" /\ 6 <= j /\ j <= 7)
           \/ (enemy_color = "b" /\ 4 <= j /\ j <= 5))
    \/ type = "Q"
    \/ (i = 1 /\ type = "K")

(* The test on an enemy piece of kind `type` met at step i of direction j. *)
Attacks(type, enemy_color, j, i) ==
    \/ (0 <= j /\ j <= 3 /\ type = "R")
    \/ (4 <= j /\ j <= 7 /\ type = "B")
    \/ (i = 1 /\ type = "P"
        /\ \/ (enemy_color = "w" /\ 6 <= j /\ j <= 7)
           \/ (enemy_color = "b" /\ 4 <= j /\ j <= 5))
    \/ type = "Q"
    \/ (i = 1 /\ type = "K")

(* (end_row, end_col) at step i from (start_row, start_col) in direction d *)
Step(start_row, start_col, d, i) == <<start_row + d[1] * i, start_col + d[2] * i>>

AtSq(board, sq) == At(board, sq[1], sq[2])

(* The least member of a set of step counts, 0 when it is empty. *)
LeastOf(steps) ==
    IF steps = {} THEN 0 ELSE CHOOSE i \in steps : \A k \in steps : i <= k

(* The inner loop of check_for_pins_and_checks runs on over the squares    *)
(* that take neither of its first two branches: the empty ones and the one *)
(* of the mover's own king.  It stops at the edge of the board or at the   *)
(* first square after step `after` that takes one; 0 when there is none.   *)
NextPiece(board, ally_colour, start, d, after) ==
    LeastOf({i \in (after + 1)..7 :
               /\ OnBoard(start[1] + d[1] * i, start[2] + d[2] * i)
               /\ At(board, start[1] + d[1] * i, start[2] + d[2] * i) # EMPTY
               /\ At(board, start[1] + d[1] * i, start[2] + d[2] * i)
                      # Piece(ally_colour, "K")})

(* The enemy branch: step i holds an enemy piece that attacks along j. *)
EnemyAttacks(board, enemy_color, start, j, i) ==
    /\ i # 0
    /\ AtSq(board, Step(start[1], start[2], directions[j + 1], i))[1]
           = enemy_color
    /\ Attacks(AtSq(board, Step(start[1], start[2], directions[j + 1], i))[2],
               enemy_color, j, i)

(* Direction j when its first piece, at step i1, is the mover's: it is the *)
(* candidate pin, and the loop ends at the next piece, at step i2, with a  *)
(* pin when that one is an enemy attacking along j.                        *)
PinBehind(board, enemy_color, start, j, i1, i2) ==
    IF EnemyAttacks(board, enemy_color, start, j, i2)
    THEN [pin |-> Step(start[1], start[2], directions[j + 1], i1)
                      \o directions[j + 1],
          check |-> << >>]
    ELSE NoHit

(* Direction j (0..7) with its first piece at step i1: the pin and the     *)
(* check the direction adds.                                               *)
RayFrom(board, ally_colour, enemy_color, start, j, i1) ==
    IF i1 = 0 THEN NoHit
    ELSE IF AtSq(board, Step(start[1], start[2], directions[j + 1], i1))[1]
                = ally_colour
    THEN PinBehind(board, enemy_color, start, j, i1,
                   NextPiece(board, ally_colour, start, directions[j + 1], i1))
    ELSE IF EnemyAttacks(board, enemy_color, start, j, i1)
    THEN [pin |-> << >>,
          check |-> Step(start[1], start[2], directions[j + 1], i1)
                        \o directions[j + 1]]
    ELSE NoHit

ScanRay(board, ally_colour, enemy_color, start, j) ==
    RayFrom(board, ally_colour, enemy_color, start, j,
            NextPiece(board, ally_colour, start, directions[j + 1], 0))

(* What each of the eight directions adds, as a tuple in the order of the  *)
(* outer loop.                                                             *)
RayHits(board, ally_colour, enemy_color, start) ==
    << >> \o [j \in 1..8 |-> ScanRay(board, ally_colour, enemy_color, start,
                                     j - 1)]

(* The knight loop: the offsets m, in the order of knight_moves, at which  *)
(* an enemy knight stands.                                                 *)
KnightHits(board, enemy_color, start) ==
    SelectSeq(knight_moves,
              LAMBDA m : /\ OnBoard(start[1] + m[1], start[2] + m[2])
                         /\ At(board, start[1] + m[1], start[2] + m[2])
                                = Piece(enemy_color, "N"))

Present(entries) == SelectSeq(entries, LAMBDA e : e # << >>)

(* in_check, pins and checks after both loops: the appends of the outer    *)
(* loop in the order of the directions, then those of the knight loop.     *)
Collected(hits, knights, start) ==
    [in_check |-> (\E j \in 1..8 : hits[j].check # << >>) \/ knights # << >>,
     pins |-> Present(<< >> \o [j \in 1..8 |-> hits[j].pin]),
     checks |-> Present(<< >> \o [j \in 1..8 |-> hits[j].check])
                \o [k \in 1..Len(knights) |->
                      <<start[1] + knights[k][1], start[2] + knights[k][2],
                        knights[k][1], knights[k][2]>>]]

PinsAndChecks(board, ally_colour, enemy_color, start) ==
    Collected(RayHits(board, ally_colour, enemy_color, start),
              KnightHits(board, enemy_color, start), start)

(* Returns [in_check, pins, checks] for the side to move, from its cached  *)
(* king square.                                                            *)
check_for_pins_and_checks(self) ==
    IF self.white_to_move
    THEN PinsAndChecks(self.board, "w", "b", self.white_king_location)
    ELSE PinsAndChecks(self.board, "b", "w", self.black_king_location)

(***************************************************************************)
(* Per-piece move generation.  Every generator takes the object and the    *)
(* list built so far and returns [self, moves]: the generators consume     *)
(* entries of self.pins, and get_king_moves rewrites the king cache.       *)
(***************************************************************************)
RemoveAt(seq, i) == SubSeq(seq, 1, i - 1) \o SubSeq(seq, i + 1, Len(seq))

LastOf(hits) == IF hits = {} THEN 0 ELSE CHOOSE i \in hits : \A k \in hits : k <= i

(* The pin loop shared by the generators: the last entry of self.pins for  *)
(* (row, col), 0 when there is none.                                       *)
FindPin(pins, row, col) ==
    LastOf({i \in 1..Len(pins) : pins[i][1] = row /\ pins[i][2] = col})

RemovePin(self, row, col, i, keep) ==
    IF i # 0 /\ ~keep THEN [self EXCEPT !.pins = RemoveAt(self.pins, i)]
    ELSE self

(* self.pins after that loop: the entry is removed unless the piece on     *)
(* (row, col) is a queen.                                                  *)
ConsumePin(self, row, col) ==
    RemovePin(self, row, col, FindPin(self.pins, row, col),
              At(self.board, row, col)[2] = "Q")

DirectionOf(pins, i) == IF i = 0 THEN << >> ELSE <<pins[i][3], pins[i][4]>>

PinDirection(pins, row, col) == DirectionOf(pins, FindPin(pins, row, col))

(* The body of get_pawn_moves after the pin loop and the choice of         *)
(* direction.  promotion is the value of pawnPromotion at every append     *)
(* that passes it: each is preceded by the test that sets it when          *)
(* row + move_amount = back_row.  It is passed as Move's fourth            *)
(* positional argument, which is enPassant.                                *)
PawnMoves(self, row, col, piece_pinned, pin_direction, move_amount, start_row, enemy_color, promotion, ep_row, moves) ==
    moves
    \o (IF At(self.board, row + move_amount, col) = EMPTY
           /\ (~piece_pinned \/ pin_direction = <<move_amount, 0>>)
        THEN << Move(<<row, col>>, <<row + move_amount, col>>, self.board,
                     promotion, FALSE) >>
             \o (IF row = start_row
                    /\ At(self.board, row + 2 * move_amount, col) = EMPTY
                 THEN << Move(<<row, col>>, <<row + 2 * move_amount, col>>,
                              self.board, FALSE, FALSE) >>
                 ELSE << >>)
        ELSE << >>)
    \o (IF col - 1 >= 0
           /\ (~piece_pinned \/ pin_direction = <<move_amount, -1>>)
           /\ At(self.board, row + move_amount, col - 1)[1] = enemy_color
        THEN << Move(<<row, col>>, <<row + move_amount, col - 1>>,
                     self.board, promotion, FALSE) >>
        ELSE << >>)
    \o (IF col + 1 <= 7
           /\ (~piece_pinned \/ pin_direction = <<move_amount, 1>>)
           /\ At(self.board, row + move_amount, col + 1)[1] = enemy_color
        THEN << Move(<<row, col>>, <<row + move_amount, col + 1>>,
                     self.board, promotion, FALSE) >>
        ELSE << >>)
    \o (IF self.en_passant_possible # << >>
           /\ row = ep_row
           /\ (self.en_passant_possible[2] = col - 1
               \/ self.en_passant_possible[2] = col + 1)
        THEN << Move(<<row, col>>,
                     <<row + move_amount, self.en_passant_possible[2]>>,
                     self.board, TRUE, FALSE) >>
        ELSE << >>)

(* A faulty variant of get_pawn_moves that takes the mover's own colour   *)
(* for enemy_color.                                                        *)
PawnMovesOntoAllies(self, row, col, moves) ==
    [self |-> ConsumePin(self, row, col),
     moves |-> IF self.white_to_move
               THEN PawnMoves(self, row, col,
                              FindPin(self.pins, row, col) # 0,
                              PinDirection(self.pins, row, col),
                              -1, 6, "w", row - 1 = 0, 3, moves)
               ELSE PawnMoves(self, row, col,
                              FindPin(self.pins, row, col) # 0,
                              PinDirection(self.pins, row, col),
                              1, 1, "b", row + 1 = 7, 4, moves)]

get_pawn_moves(self, row, col, moves) ==
    [self |-> ConsumePin(self, row, col),
     moves |-> IF self.white_to_move
               THEN PawnMoves(self, row, col,
                              FindPin(self.pins, row, col) # 0,
                              PinDirection(self.pins, row, col),
                              -1, 6, "b", row - 1 = 0, 3, moves)
               ELSE PawnMoves(self, row, col,
                              FindPin(self.pins, row, col) # 0,
                              PinDirection(self.pins, row, col),
                              1, 1, "w", row + 1 = 7, 4, moves)]

(* The moves from (row, col) to the listed squares, in their order. *)
MovesTo(targets, row, col, board) ==
    [k \in 1..Len(targets) |->
        Move(<<row, col>>, targets[k], board, FALSE, FALSE)]

(* The inner loop of a sliding piece along direction d runs over empty     *)
(* squares and ends at the edge of the board or at the first piece: the    *)
(* step at which it ends, 0 when all seven steps are empty squares.        *)
SlideEnd(board, row, col, d) ==
    LeastOf({i \in 1..7 : \/ ~OnBoard(row + d[1] * i, col + d[2] * i)
                          \/ At(board, row + d[1] * i, col + d[2] * i)
                                 # EMPTY})

(* The squares that loop appends a move to: those before the step it ends  *)
(* at, and that one too when it holds an enemy piece.                      *)
SlideUpTo(board, enemy_color, row, col, d, end) ==
    << >> \o [i \in 1..(IF end = 0 THEN 7
                        ELSE IF /\ OnBoard(row + d[1] * end, col + d[2] * end)
                                /\ At(board, row + d[1] * end,
                                      col + d[2] * end)[1] = enemy_color
                             THEN end
                             ELSE end - 1) |-> Step(row, col, d, i)]

SlideRay(board, enemy_color, row, col, d) ==
    SlideUpTo(board, enemy_color, row, col, d, SlideEnd(board, row, col, d))

(* One turn of the loop over the directions: nothing is appended along a   *)
(* direction a pin forbids.                                                *)
SlideAlong(self, row, col, d, piece_pinned, pin_direction) ==
    IF \/ ~piece_pinned
       \/ pin_direction = d
       \/ pin_direction = <<-d[1], -d[2]>>
    THEN MovesTo(SlideRay(self.board, IF self.white_to_move THEN "b" ELSE "w",
                          row, col, d),
                 row, col, self.board)
    ELSE << >>

(* The loop over the four directions of a rook or a bishop. *)
SlideAll(self, row, col, dirs, piece_pinned, pin_direction, moves) ==
    moves
    \o SlideAlong(self, row, col, dirs[1], piece_pinned, pin_direction)
    \o SlideAlong(self, row, col, dirs[2], piece_pinned, pin_direction)
    \o SlideAlong(self, row, col, dirs[3], piece_pinned, pin_direction)
    \o SlideAlong(self, row, col, dirs[4], piece_pinned, pin_direction)

(* The body shared by get_rook_moves and get_bishop_moves, which differ in *)
(* their directions.                                                       *)
SlidingMoves(self, row, col, dirs, moves) ==
    [self |-> ConsumePin(self, row, col),
     moves |-> SlideAll(self, row, col, dirs,
                        FindPin(self.pins, row, col) # 0,
                        PinDirection(self.pins, row, col), moves)]

get_rook_moves(self, row, col, moves) ==
    SlidingMoves(self, row, col,
                 << <<-1, 0>>, <<0, -1>>, <<1, 0>>, <<0, 1>> >>, moves)

get_bishop_moves(self, row, col, moves) ==
    SlidingMoves(self, row, col,
                 << <<-1, -1>>, <<-1, 1>>, <<1, -1>>, <<1, 1>> >>, moves)

BishopAfter(r, row, col) == get_bishop_moves(r.self, row, col, r.moves)

get_queen_moves(self, row, col, moves) ==
    Then(get_rook_moves(self, row, col, moves),
         LAMBDA r : BishopAfter(r, row, col))

(* A faulty variant of the loop over knight_moves, without its test on the *)
(* colour of the piece on the target square.                               *)
KnightJumpsOntoAllies(board, ally_colour, row, col) ==
    SelectSeq(<< >> \o [k \in 1..8 |-> <<row + knight_moves[k][1],
                                         col + knight_moves[k][2]>>],
              LAMBDA sq : OnBoard(sq[1], sq[2]))

(* The loop over knight_moves: the squares on the board that hold no piece *)
(* of the mover, in the order of the loop.                                 *)
KnightJumps(board, ally_colour, row, col) ==
    SelectSeq(<< >> \o [k \in 1..8 |-> <<row + knight_moves[k][1],
                                         col + knight_moves[k][2]>>],
              LAMBDA sq : /\ OnBoard(sq[1], sq[2])
                          /\ At(board, sq[1], sq[2])[1] # ally_colour)

KnightMoves(self, row, col, moves, i) ==
    [self |-> RemovePin(self, row, col, i, FALSE),
     moves |-> IF i # 0 THEN moves
               ELSE moves
                    \o MovesTo(KnightJumps(self.board,
                                   IF self.white_to_move THEN "w" ELSE "b",
                                   row, col),
                               row, col, self.board)]

get_knight_moves(self, row, col, moves) ==
    KnightMoves(self, row, col, moves, FindPin(self.pins, row, col))

row_moves == <<-1, -1, -1, 0, 0, 1, 1, 1>>

col_moves == <<-1, 0, 1, -1, 1, -1, 0, 1>>

WithKing(self, ally_colour, square) ==
    IF ally_colour = "w" THEN [self EXCEPT !.white_king_location = square]
    ELSE [self EXCEPT !.black_king_location = square]

(* The candidate squares of get_king_moves that pass its first two tests   *)
(* (on the board, no piece of the mover), in the order of the loop.        *)
KingTargets(board, ally_colour, row, col) ==
    SelectSeq(<< >> \o [k \in 1..8 |-> <<row + row_moves[k],
                                         col + col_moves[k]>>],
              LAMBDA sq : /\ OnBoard(sq[1], sq[2])
                          /\ At(board, sq[1], sq[2])[1] # ally_colour)

(* The loop of get_king_moves: for every such candidate the cache is moved *)
(* to it, the analysis is run, the move is appended when it reports no     *)
(* check, and the cache is set to (row, col).                              *)
KingMoves(self, row, col, moves, ally_colour, targets) ==
    [self |-> IF targets = << >> THEN self
              ELSE WithKing(self, ally_colour, <<row, col>>),
     moves |-> moves
               \o MovesTo(SelectSeq(targets,
                              LAMBDA sq :
                                  ~check_for_pins_and_checks(
                                       WithKing(self, ally_colour, sq)).in_check),
                          row, col, self.board)]

KingMovesOf(self, row, col, moves, ally_colour) ==
    KingMoves(self, row, col, moves, ally_colour,
              KingTargets(self.board, ally_colour, row, col))

get_king_moves(self, row, col, moves) ==
    KingMovesOf(self, row, col, moves, IF self.white_to_move THEN "w" ELSE "b")

(* move_functions[piece](row, col, moves) *)
MoveFunction(self, piece, row, col, moves) ==
    CASE piece = "P" -> get_pawn_moves(self, row, col, moves)
      [] piece = "R" -> get_rook_moves(self, row, col, moves)
      [] piece = "N" -> get_knight_moves(self, row, col, moves)
      [] piece = "B" -> get_bishop_moves(self, row, col, moves)
      [] piece = "Q" -> get_queen_moves(self, row, col, moves)
      [] piece = "K" -> get_king_moves(self, row, col, moves)

(* get_all_possible_moves: the squares (row * 8 + col) that pass the turn  *)
(* test, in the row-major order of the scan.  The other squares are passed *)
(* over without effect.                                                    *)
OwnSquares(self) ==
    SelectSeq(<< >> \o [q \in 1..64 |-> q - 1],
              LAMBDA q :
                  \/ (At(self.board, q \div 8, q % 8)[1] = "w"
                      /\ self.white_to_move)
                  \/ (At(self.board, q \div 8, q % 8)[1] = "b"
                      /\ ~self.white_to_move))

(* The scan over own[lo..hi], each generator working on the object and the *)
(* list the one before it left; the stretch is run as its first half       *)
(* followed by its second half, which starts from the value the first half *)
(* has returned.                                                           *)
RECURSIVE ScanSquares(_, _, _, _, _)
ScanAfter(r, own, lo, hi) == ScanSquares(r.self, own, lo, hi, r.moves)

ScanSquares(self, own, lo, hi, moves) ==
    IF lo > hi THEN [self |-> self, moves |-> moves]
    ELSE IF lo = hi
    THEN MoveFunction(self, At(self.board, own[lo] \div 8, own[lo] % 8)[2],
                      own[lo] \div 8, own[lo] % 8, moves)
    ELSE Then(ScanSquares(self, own, lo, (lo + hi) \div 2, moves),
              LAMBDA r : ScanAfter(r, own, (lo + hi) \div 2 + 1, hi))

ScanOwn(self, own) == ScanSquares(self, own, 1, Len(own), << >>)

get_all_possible_moves(self) == ScanOwn(self, OwnSquares(self))

(***************************************************************************)
(* Attacked squares, castling and get_valid_moves                          *)
(***************************************************************************)
AttackResult(r, row, col) ==
    [self |-> [r.self EXCEPT !.white_to_move = ~@],
     result |-> \E i \in 1..Len(r.moves) :
                    r.moves[i].end_row = row /\ r.moves[i].end_col = col]

(* Returns [self, result]: the opponent's pseudo-legal moves are generated *)
(* on the object itself with the side to move flipped and flipped back.    *)
square_under_attack(self, row, col) ==
    Then(get_all_possible_moves([self EXCEPT !.white_to_move = ~@]),
         LAMBDA r : AttackResult(r, row, col))

(* `not square_under_attack(..) and not square_under_attack(..)`: a is the *)
(* answer for the first square; the second is asked about only when the    *)
(* first is not attacked.  [self, result], result TRUE when one is.        *)
OrUnderAttack(a, row, col) ==
    IF a.result THEN a ELSE square_under_attack(a.self, row, col)

CastleIfSafe(a, from, to, board, moves) ==
    [self |-> a.self,
     moves |-> IF a.result THEN moves
               ELSE Append(moves, Move(from, to, board, FALSE, TRUE))]

get_kingside_castle_moves(self, row, col, moves) ==
    IF At(self.board, row, col + 1) = EMPTY
       /\ At(self.board, row, col + 2) = EMPTY
    THEN Then(Then(square_under_attack(self, row, col + 1),
                   LAMBDA a : OrUnderAttack(a, row, col + 2)),
              LAMBDA a : CastleIfSafe(a, <<row, col>>, <<row, col + 2>>,
                                      self.board, moves))
    ELSE [self |-> self, moves |-> moves]

get_queenside_castle_moves(self, row, col, moves) ==
    IF At(self.board, row, col - 1) = EMPTY
       /\ At(self.board, row, col - 2) = EMPTY
       /\ At(self.board, row, col - 3) = EMPTY
    THEN Then(Then(square_under_attack(self, row, col - 1),
                   LAMBDA a : OrUnderAttack(a, row, col - 2)),
              LAMBDA a : CastleIfSafe(a, <<row, col>>, <<row, col - 2>>,
                                      self.board, moves))
    ELSE [self |-> self, moves |-> moves]

(* The two `if` statements of get_castle_moves, each side tried when the   *)
(* side to move holds its right.                                           *)
KingsideIfRight(self, row, col, moves) ==
    IF (self.white_to_move /\ self.current_castling_rights.wks)
       \/ (~self.white_to_move /\ self.current_castling_rights.bks)
    THEN get_kingside_castle_moves(self, row, col, moves)
    ELSE [self |-> self, moves |-> moves]

QueensideIfRight(self, row, col, moves) ==
    IF (self.white_to_move /\ self.current_castling_rights.wqs)
       \/ (~self.white_to_move /\ self.current_castling_rights.bqs)
    THEN get_queenside_castle_moves(self, row, col, moves)
    ELSE [self |-> self, moves |-> moves]

QueensideAfter(r, row, col) == QueensideIfRight(r.self, row, col, r.moves)

CastleUnlessAttacked(a, row, col, moves) ==
    IF a.result THEN [self |-> a.self, moves |-> moves]
    ELSE Then(KingsideIfRight(a.self, row, col, moves),
              LAMBDA r : QueensideAfter(r, row, col))

get_castle_moves(self, row, col, moves) ==
    Then(square_under_attack(self, row, col),
         LAMBDA a : CastleUnlessAttacked(a, row, col, moves))

FirstHit(hit) == IF hit = {} THEN 7 ELSE CHOOSE i \in hit : \A k \in hit : i <= k

(* The squares a non-king move may land on under a single check. *)
ValidSquares(board, king_row, king_col, check) ==
    IF At(board, check[1], check[2])[2] = "N"
    THEN {<<check[1], check[2]>>}
    ELSE {<<king_row + check[3] * i, king_col + check[4] * i>> :
            i \in 1..FirstHit({i \in 1..7 :
                     <<king_row + check[3] * i, king_col + check[4] * i>>
                         = <<check[1], check[2]>>})}

(* `self.in_check is True` (engine.py:473): self.in_check is the bound     *)
(* method in_check, never the boolean stored in self.is_in_check, and a    *)
(* method object is not the object True.                                   *)
InCheckIsTrue(self) == FALSE

(* A faulty variant of the end of get_valid_moves that sets no flag. *)
SetNoFlag(c) == [self |-> c.self, moves |-> c.moves]

(* The end of get_valid_moves: the flags are set when the list is empty. *)
SetFlags(c) ==
    [self |-> IF Len(c.moves) = 0
              THEN IF InCheckIsTrue(c.self)
                   THEN [c.self EXCEPT !.checkmate = TRUE]
                   ELSE [c.self EXCEPT !.stalemate = TRUE]
              ELSE c.self,
     moves |-> c.moves]

(* Under a single check, the moves of get_all_possible_moves that a king   *)
(* makes or that land on a valid square; the removal loop keeps the order  *)
(* of those it leaves.                                                     *)
KeepValid(all, valid_squares) ==
    [self |-> all.self,
     moves |-> SelectSeq(all.moves,
                   LAMBDA m : m.piece_moved[2] = "K"
                              \/ <<m.end_row, m.end_col>> \in valid_squares)]

AddCastle(gen, king) == get_castle_moves(gen.self, king[1], king[2], gen.moves)

(* get_valid_moves after the analysis a was stored: king is the cached     *)
(* square of the side to move.                                             *)
Generated(s1, a, king) ==
    IF a.in_check
    THEN IF Len(a.checks) = 1
         THEN KeepValid(get_all_possible_moves(s1),
                        ValidSquares(s1.board, king[1], king[2], a.checks[1]))
         ELSE get_king_moves(s1, king[1], king[2], << >>)
    ELSE get_all_possible_moves(s1)

ValidMoves(s1, a, king) ==
    Then(Then(Generated(s1, a, king), LAMBDA gen : AddCastle(gen, king)),
         SetFlags)

Analysed(self, a) ==
    ValidMoves([self EXCEPT !.pins = a.pins, !.checks = a.checks], a,
               IF self.white_to_move THEN self.white_king_location
               ELSE self.black_king_location)

(* Returns [self, moves].  is_in_check is written to the object only to be *)
(* read back on the next lines; it is the in_check of the analysis here.   *)
get_valid_moves(self) ==
    Then(check_for_pins_and_checks(self), LAMBDA a : Analysed(self, a))

(***************************************************************************)
(* Search (src/movefinder.py)                                              *)
(***************************************************************************)
(* float("inf"): larger than every score the evaluator can return. *)
INF == 1000000

CHECKMATE_SCORE == 1000

STALEMATE_SCORE == 0

PIECE_SCORE(piece_type) ==
    CASE piece_type = "K" -> 100
      [] piece_type = "Q" -> 9
      [] piece_type = "R" -> 5
      [] piece_type = "B" -> 4
      [] piece_type = "N" -> 3
      [] piece_type = "P" -> 1

RECURSIVE SumUpTo(_, _)
SumUpTo(f, n) == IF n = 0 THEN 0 ELSE SumUpTo(f, n - 1) + f[n]

PieceValue(piece) ==
    IF piece = EMPTY THEN 0
    ELSE (IF piece[1] = "w" THEN 1 ELSE -1) * PIECE_SCORE(piece[2])

(* A faulty variant of score_board that looks at the stalemate flag first. *)
ScoreStalemateFirst(gs) ==
    IF gs.stalemate THEN STALEMATE_SCORE
    ELSE IF gs.checkmate
    THEN IF gs.white_to_move THEN -CHECKMATE_SCORE ELSE CHECKMATE_SCORE
    ELSE SumUpTo([row \in 1..8 |->
                     SumUpTo([col \in 1..8 |-> PieceValue(gs.board[row][col])],
                             8)], 8)

score_board(gs) ==
    IF gs.checkmate
    THEN IF gs.white_to_move THEN -CHECKMATE_SCORE ELSE CHECKMATE_SCORE
    ELSE IF gs.stalemate THEN STALEMATE_SCORE
    ELSE SumUpTo([row \in 1..8 |->
                     SumUpTo([col \in 1..8 |-> PieceValue(gs.board[row][col])],
                             8)], 8)

Max(a, b) == IF a >= b THEN a ELSE b

Min(a, b) == IF a <= b THEN a ELSE b

(* What the claims compare: the fields a make_move/undo_move pair is to    *)
(* restore.                                                                *)
Position(gs) ==
    [ board |-> gs.board,
      white_to_move |-> gs.white_to_move,
      white_king_location |-> gs.white_king_location,
      black_king_location |-> gs.black_king_location,
      current_castling_rights |-> gs.current_castling_rights,
      en_passant_possible |-> gs.en_passant_possible,
      log_length |-> Len(gs.move_log) ]

(* The locals of find_best_move as the bottom frame of the search stack    *)
(* (maximizing_player, alpha, beta and pruned are minmax's and stay unused *)
(* here).  scores and entry are history: the score of every candidate      *)
(* tried, and the position the loop started from.  cutoff tells whether    *)
(* minmax's `if beta <= alpha: break` is in place, as it is in the         *)
(* program; a search run again without it keeps in cutoff_run the scores   *)
(* and the choice of the search it is compared with.                       *)
RootFrame(gs, moves, depth) ==
    [ kind |-> "find_best_move",
      moves |-> moves,
      i |-> 1,
      depth |-> depth,
      maximizing_player |-> FALSE,
      turn_multiplier |-> IF gs.white_to_move THEN 1 ELSE -1,
      alpha |-> -INF,
      beta |-> INF,
      score |-> INF,
      best_move |-> << >>,
      pruned |-> FALSE,
      scores |-> << >>,
      entry |-> Position(gs),
      cutoff |-> TRUE,
      cutoff_run |-> << >> ]

(* The locals of one minmax call that reached its loop. *)
MinmaxFrame(gs, moves, c) ==
    [ kind |-> "minmax",
      moves |-> moves,
      i |-> 1,
      depth |-> c.depth,
      maximizing_player |-> c.maximizing_player,
      turn_multiplier |-> 0,
      alpha |-> c.alpha,
      beta |-> c.beta,
      score |-> IF c.maximizing_player THEN -INF ELSE INF,
      best_move |-> << >>,
      pruned |-> FALSE,
      scores |-> << >>,
      entry |-> Position(gs),
      cutoff |-> c.cutoff,
      cutoff_run |-> << >> ]

(* The arguments of the minmax call a frame makes for its current move,    *)
(* read after make_move. *)
CallArgs(frame, gs) ==
    IF frame.kind = "find_best_move"
    THEN [depth |-> frame.depth - 1,
          maximizing_player |-> ~gs.white_to_move,
          alpha |-> -INF, beta |-> INF, cutoff |-> frame.cutoff]
    ELSE [depth |-> frame.depth - 1,
          maximizing_player |-> ~frame.maximizing_player,
          alpha |-> frame.alpha, beta |-> frame.beta,
          cutoff |-> frame.cutoff]

(* The frame after the call for move i returned current_score. *)
AfterChild(frame, current_score) ==
    IF frame.kind = "find_best_move"
    THEN LET better == current_score * frame.turn_multiplier < frame.score
         IN  [frame EXCEPT
               !.score = IF better
                         THEN current_score * frame.turn_multiplier ELSE @,
               !.best_move = IF better THEN <<frame.moves[frame.i]>> ELSE @,
               !.scores = Append(@, current_score),
               !.i = @ + 1]
    ELSE IF frame.maximizing_player
    THEN LET alpha == Max(frame.alpha, current_score)
         IN  [frame EXCEPT
               !.score = Max(@, current_score),
               !.alpha = alpha,
               !.pruned = frame.cutoff /\ frame.beta <= alpha,
               !.scores = Append(@, current_score),
               !.i = @ + 1]
    ELSE LET beta == Min(frame.beta, current_score)
         IN  [frame EXCEPT
               !.score = Min(@, current_score),
               !.beta = beta,
               !.pruned = frame.cutoff /\ beta <= frame.alpha,
               !.scores = Append(@, current_score),
               !.i = @ + 1]

(***************************************************************************)
(* The callers.  The engine is driven through get_valid_moves, make_move   *)
(* and undo_move, as src/main.py drives it: a move is made only from the   *)
(* list the last get_valid_moves returned for the current position.        *)
(* find_best_move runs as a sequence of steps, one per make_move, minmax   *)
(* entry, undo_move and loop exit, so that the states inside the search    *)
(* are states of the model.                                                *)
(***************************************************************************)
VARIABLES gamestate, valid_moves, hist, pc, stack, call, ret, best_move

vars == <<gamestate, valid_moves, hist, pc, stack, call, ret, best_move>>

(* Bounds of the exploration.  Games follow the opening lines of Book (as  *)
(* Move.moveID values, start_row start_col end_row end_col); after a       *)
(* complete line the players may leave it by at most MaxFree moves, and    *)
(* find_best_move is called after a complete line, to depth 1..MaxDepth    *)
(* and, where the list is short, to its default depth (see Depths).        *)
(* The caller takes back at most MaxUndo moves in one game.  hist records the last    *)
(* operation of the caller, the object before it (for an undo_move that    *)
(* directly follows a make_move: before that make_move, with round_trip    *)
(* set), and the number of moves taken back so far.                        *)
MaxFree == 1

MaxUndo == 1

MaxDepth == 2

(* find_best_move's default depth.  A position with at most MaxWide legal  *)
(* moves is searched to that depth as well.                                *)
DefaultDepth == 3

MaxWide == 5

Depths(moves) ==
    IF Len(moves) <= MaxWide
    THEN 1..Max(MaxDepth, DefaultDepth) ELSE 1..MaxDepth

Book ==
    { <<6555, 1434, 6646, 347>>,           \* f3 e5 g4 Qh4 mate
      <<6555, 1434, 6646>>,                \* ... black to move, mate in one
      <<6444, 1434>>,                      \* e4 e5
      <<6444, 1333>>,                      \* e4 d5: white can take on d5
      <<6444, 1333, 6050>>,                \* ... a3: black can take on e4
      <<6444, 1434, 6343, 3443, 4434, 314, 6050, 1333>>,
                                           \* e4 e5 d4 exd4 e5 Qe7 a3 d5
      <<6343, 625, 4333, 1626, 3323, 516, 2314>>,
                                           \* d4 Nf6 d5 g6 d6 Bg7 dxe7
      <<6343, 625, 4333, 1626, 3323, 516, 2314, 120>>,
                                           \* ... Na6: white can promote on d8
      <<6444, 1434, 7655, 122, 7542, 532>>,
                                           \* e4 e5 Nf3 Nc6 Bc4 Bc5: white can
                                           \* castle
      <<6151, 1626, 7261, 625, 6050, 527, 5040, 2533, 6107>>,
                                           \* b3 g6 Bb2 Nf6 a3 Bh6 a4 Nd5 Bxh8:
                                           \* the rook is taken on its corner
      <<6343, 1424, 6444, 541>>,           \* d4 e6 e4 Bb4+: white in check
      <<6343, 1424, 6141, 541>>,           \* d4 e6 b4 Bxb4+: five answers
      <<6242, 1727, 6444, 1525, 7337>>,    \* c4 h6 e4 f6 Qh5+: g6 is the only
                                           \* move
      <<6757, 1434, 6555, 347>>,           \* h3 e5 f3 Qh4+: g3 is the only
                                           \* move, and Qxg3 then mates
      <<6454, 1030, 7337, 20, 3730, 1737, 6747, 2027, 3012, 1525,
        1213, 415, 1311, 353, 1101, 5317, 102, 1526, 224>> }
                                           \* e3 a5 Qh5 Ra6 Qxa5 h5 h4 Rah6
                                           \* Qxc7 f6 Qxd7+ Kf7 Qxb7 Qd3 Qxb8
                                           \* Qh7 Qxc8 Kg6 Qe6: black has no
                                           \* move and is not in check

PromotionChoices == {"Q", "R", "B", "N"}

LogIDs(log) == [i \in 1..Len(log) |-> log[i].moveID]

IsPrefix(p, line) == Len(p) <= Len(line) /\ SubSeq(line, 1, Len(p)) = p

(* The number of moves at the end of ids that are off the book: 0 inside   *)
(* a line, k when the first Len(ids) - k moves are a complete line.        *)
OffBook(ids) ==
    IF \E line \in Book : IsPrefix(ids, line) THEN 0
    ELSE LET ks == {k \in 1..Len(ids) :
                       SubSeq(ids, 1, Len(ids) - k) \in Book}
         IN  IF ks = {} THEN MaxFree + 1
             ELSE CHOOSE k \in ks : \A x \in ks : k <= x

NoCall ==
    [depth |-> 0, maximizing_player |-> FALSE, alpha |-> 0, beta |-> 0,
     cutoff |-> TRUE]

Init ==
    /\ gamestate = NewGameState
    /\ valid_moves = << >>
    /\ hist = [op |-> "init", pre |-> NewGameState, round_trip |-> FALSE,
               undone |-> 0]
    /\ pc = "idle"
    /\ stack = << >>
    /\ call = NoCall
    /\ ret = 0
    /\ best_move = << >>

Returned(r) == gamestate' = r.self /\ valid_moves' = r.moves

(* valid_moves = gamestate.get_valid_moves() *)
GetValidMoves ==
    /\ pc = "idle"
    /\ Returned(get_valid_moves(gamestate))
    /\ hist' = [op |-> "get_valid_moves", pre |-> gamestate,
                round_trip |-> FALSE, undone |-> hist.undone]
    /\ UNCHANGED <<pc, stack, call, ret, best_move>>

(* gamestate.make_move(valid_moves[i], human_turn), for a move that stays  *)
(* within `free` moves of the book. *)
MakeMoveWithin(free) ==
    /\ pc = "idle"
    /\ hist.op = "get_valid_moves"
    /\ \E i \in 1..Len(valid_moves) :
         /\ OffBook(Append(LogIDs(gamestate.move_log), valid_moves[i].moveID))
                <= free
         /\ \E promoted_piece \in
                  IF valid_moves[i].is_pawn_promotion
                  THEN PromotionChoices ELSE {"Q"} :
              gamestate' = make_move(gamestate, valid_moves[i], promoted_piece)
    /\ hist' = [op |-> "make_move", pre |-> gamestate, round_trip |-> FALSE,
                undone |-> hist.undone]
    /\ UNCHANGED <<valid_moves, pc, stack, call, ret, best_move>>

MakeMove == MakeMoveWithin(MaxFree)

BookMove == MakeMoveWithin(0)

(* gamestate.undo_move() *)
UndoMove ==
    /\ pc = "idle"
    /\ hist.undone < MaxUndo
    /\ gamestate' = undo_move(gamestate)
    /\ hist' = IF hist.op = "make_move"
               THEN [op |-> "undo_move", pre |-> hist.pre, round_trip |-> TRUE,
                     undone |-> hist.undone + 1]
               ELSE [op |-> "undo_move", pre |-> gamestate,
                     round_trip |-> FALSE, undone |-> hist.undone + 1]
    /\ UNCHANGED <<valid_moves, pc, stack, call, ret, best_move>>

(* movefinder.find_best_move(gamestate, valid_moves, depth): the locals    *)
(* are set up and the loop over valid_moves begins.                        *)
FindBestMove ==
    /\ pc = "idle"
    /\ hist.op = "get_valid_moves"
    /\ Len(valid_moves) > 0
    /\ LogIDs(gamestate.move_log) \in Book
    /\ \E depth \in Depths(valid_moves) :
         stack' = << RootFrame(gamestate, valid_moves, depth) >>
    /\ pc' = "loop"
    /\ best_move' = << >>
    /\ hist' = [op |-> "find_best_move", pre |-> gamestate,
                round_trip |-> FALSE, undone |-> hist.undone]
    /\ UNCHANGED <<gamestate, valid_moves, call, ret>>

Top == stack[Len(stack)]

LoopRuns(frame) == frame.i <= Len(frame.moves) /\ ~frame.pruned

Called(gs) == gamestate' = gs /\ call' = CallArgs(Top, gs)

(* The loop body up to the call: gamestate.make_move(move), then minmax is *)
(* called with the arguments of CallArgs.  An exception of make_move ends  *)
(* the search.                                                             *)
Descend ==
    /\ pc = "loop"
    /\ LoopRuns(Top)
    /\ \E move \in {Top.moves[Top.i]} :
         \E promoted_piece \in
             IF move.is_pawn_promotion THEN PromotionChoices ELSE {"Q"} :
           IF MakeMoveRaises(move)
           THEN /\ gamestate' = MakeMoveRaised(gamestate, move, promoted_piece)
                /\ pc' = "raised"
                /\ call' = call
           ELSE /\ Called(make_move(gamestate, move, promoted_piece))
                /\ pc' = "enter"
    /\ UNCHANGED <<valid_moves, hist, stack, ret, best_move>>

Recurse(r) ==
    /\ gamestate' = r.self
    /\ stack' = Append(stack, MinmaxFrame(r.self, r.moves, call))

(* minmax up to its loop: the base case returns score_board, the recursive *)
(* case calls get_valid_moves and starts the loop over what it returned.   *)
Enter ==
    /\ pc = "enter"
    /\ IF call.depth = 0 \/ gamestate.checkmate \/ gamestate.stalemate
       THEN /\ ret' = score_board(gamestate)
            /\ pc' = "return"
            /\ UNCHANGED <<gamestate, stack>>
       ELSE /\ Recurse(get_valid_moves(gamestate))
            /\ pc' = "loop"
            /\ ret' = ret
    /\ UNCHANGED <<valid_moves, hist, call, best_move>>

(* The loop body after the call: gamestate.undo_move(), then the frame's   *)
(* running score, bounds and cut-off are updated with the returned score.  *)
Return ==
    /\ pc = "return"
    /\ gamestate' = undo_move(gamestate)
    /\ stack' = [stack EXCEPT ![Len(stack)] = AfterChild(@, ret)]
    /\ pc' = "loop"
    /\ UNCHANGED <<valid_moves, hist, call, ret, best_move>>

(* The loop of a minmax call is over: it returns its running score. *)
MinmaxReturn ==
    /\ pc = "loop"
    /\ ~LoopRuns(Top)
    /\ Top.kind = "minmax"
    /\ ret' = Top.score
    /\ call' = [call EXCEPT !.depth = Top.depth]
    /\ stack' = SubSeq(stack, 1, Len(stack) - 1)
    /\ pc' = "return"
    /\ UNCHANGED <<gamestate, valid_moves, hist, best_move>>

(* The loop of find_best_move is over: it returns best_move.  When no      *)
(* candidate was kept the name is unbound and the return raises.           *)
FindBestMoveReturn ==
    /\ pc = "loop"
    /\ ~LoopRuns(Top)
    /\ Top.kind = "find_best_move"
    /\ best_move' = Top.best_move
    /\ hist' = [op |-> "find_best_move_return", pre |-> hist.pre,
                round_trip |-> FALSE, undone |-> hist.undone]
    /\ stack' = << Top >>
    /\ pc' = IF Top.best_move = << >> THEN "raised" ELSE "returned"
    /\ UNCHANGED <<gamestate, valid_moves, call, ret>>

(* The engine driven move by move, with moves taken back. *)
Next ==
    \/ GetValidMoves
    \/ MakeMove
    \/ UndoMove

Spec == Init /\ [][Next]_vars

(* A game that follows the book, in which find_best_move is asked for a    *)
(* move. *)
SearchNext ==
    \/ GetValidMoves
    \/ BookMove
    \/ FindBestMove
    \/ Descend
    \/ Enter
    \/ Return
    \/ MinmaxReturn
    \/ FindBestMoveReturn

SearchSpec == Init /\ [][SearchNext]_vars

(* The recursion with the cut-off removed: after find_best_move reached    *)
(* its return statement the same call is made again on the object as it    *)
(* was before the first call, with `if beta <= alpha: break` taken out of  *)
(* minmax.  The scores and the choice of the first call are kept in the    *)
(* bottom frame.                                                           *)
FindBestMoveWithoutCutoff ==
    /\ pc \in {"returned", "raised"}
    /\ hist.op = "find_best_move_return"
    /\ Top.cutoff
    /\ gamestate' = hist.pre
    /\ stack' = << [RootFrame(hist.pre, valid_moves, Top.depth) EXCEPT
                     !.cutoff = FALSE,
                     !.cutoff_run = << [scores |-> Top.scores,
                                        best_move |-> Top.best_move] >>] >>
    /\ pc' = "loop"
    /\ best_move' = << >>
    /\ hist' = [hist EXCEPT !.op = "find_best_move"]
    /\ UNCHANGED <<valid_moves, call, ret>>

PruningNext ==
    \/ SearchNext
    \/ FindBestMoveWithoutCutoff

PruningSpec == Init /\ [][PruningNext]_vars

(***************************************************************************)
(* The rules of chess the properties refer to, stated on the board alone   *)
(* and independently of the engine's generators.                           *)
(***************************************************************************)
Squares == (0..7) \X (0..7)

Other(colour) == IF colour = "w" THEN "b" ELSE "w"

SideToMove(gs) == IF gs.white_to_move THEN "w" ELSE "b"

(* A pawn of colour `by` stands diagonally behind (row, col), seen from    *)
(* its direction of advance.                                               *)
PawnAttacks(board, by, row, col) ==
    \E dc \in {-1, 1} :
        /\ OnBoard(row + (IF by = "w" THEN 1 ELSE -1), col + dc)
        /\ At(board, row + (IF by = "w" THEN 1 ELSE -1), col + dc)
               = Piece(by, "P")

LeaperAttacks(board, by, row, col) ==
    \/ \E dr \in {-2, -1, 1, 2}, dc \in {-2, -1, 1, 2} :
           /\ Abs(dr) + Abs(dc) = 3
           /\ OnBoard(row + dr, col + dc)
           /\ At(board, row + dr, col + dc) = Piece(by, "N")
    \/ \E dr \in -1..1, dc \in -1..1 :
           /\ <<dr, dc>> # <<0, 0>>
           /\ OnBoard(row + dr, col + dc)
           /\ At(board, row + dr, col + dc) = Piece(by, "K")

SliderAttacks(board, by, row, col) ==
    \E dr \in -1..1, dc \in -1..1, n \in 1..7 :
        /\ <<dr, dc>> # <<0, 0>>
        /\ OnBoard(row + dr * n, col + dc * n)
        /\ At(board, row + dr * n, col + dc * n)[1] = by
        /\ At(board, row + dr * n, col + dc * n)[2]
               \in (IF dr = 0 \/ dc = 0 THEN {"R", "Q"} ELSE {"B", "Q"})
        /\ \A m \in 1..(n - 1) :
               At(board, row + dr * m, col + dc * m) = EMPTY

(* (row, col) is attacked by a piece of colour `by`. *)
Attacked(board, by, row, col) ==
    \/ PawnAttacks(board, by, row, col)
    \/ LeaperAttacks(board, by, row, col)
    \/ SliderAttacks(board, by, row, col)

KingSquares(board, colour) ==
    {sq \in Squares : At(board, sq[1], sq[2]) = Piece(colour, "K")}

(* The king of `colour` stands on a square the other side attacks. *)
KingAttacked(board, colour) ==
    \E sq \in KingSquares(board, colour) :
        Attacked(board, Other(colour), sq[1], sq[2])

KingCacheMatches(gs) ==
    /\ At(gs.board, gs.white_king_location[1], gs.white_king_location[2])
           = Piece("w", "K")
    /\ At(gs.board, gs.black_king_location[1], gs.black_king_location[2])
           = Piece("b", "K")

(* The en-passant target is unset, or is the square passed over by the     *)
(* two-square pawn advance that is the last move of the log.               *)
EnPassantFresh(gs) ==
    \/ gs.en_passant_possible = << >>
    \/ /\ Len(gs.move_log) > 0
       /\ gs.move_log[Len(gs.move_log)].piece_moved
              = Piece(Other(SideToMove(gs)), "P")
       /\ Abs(gs.move_log[Len(gs.move_log)].start_row
              - gs.move_log[Len(gs.move_log)].end_row) = 2
       /\ gs.en_passant_possible
              = << (gs.move_log[Len(gs.move_log)].start_row
                    + gs.move_log[Len(gs.move_log)].end_row) \div 2,
                   gs.move_log[Len(gs.move_log)].start_col >>

(* A legal chess position: one king each, the caches on them, the side     *)
(* that has just moved not left in check, a fresh en-passant target.       *)
LegalPosition(gs) ==
    /\ Cardinality(KingSquares(gs.board, "w")) = 1
    /\ Cardinality(KingSquares(gs.board, "b")) = 1
    /\ KingCacheMatches(gs)
    /\ ~KingAttacked(gs.board, Other(SideToMove(gs)))
    /\ EnPassantFresh(gs)

RoundTripFields(gs) ==
    [ board |-> gs.board,
      white_to_move |-> gs.white_to_move,
      white_king_location |-> gs.white_king_location,
      black_king_location |-> gs.black_king_location,
      current_castling_rights |-> gs.current_castling_rights,
      en_passant_possible |-> gs.en_passant_possible ]

(***************************************************************************)
(* Properties                                                              *)
(***************************************************************************)

(* C1: round-trip law.  After make_move of a move returned by              *)
(* get_valid_moves, directly followed by undo_move, the board, the side to *)
(* move, both cached king locations, the castling rights and the           *)
(* en-passant target have the values they had before make_move.            *)
C1_RoundTrip ==
    (hist.op = "undo_move" /\ hist.round_trip)
        => RoundTripFields(gamestate) = RoundTripFields(hist.pre)

(* C2: king-cache invariant.  In every state reached by make_move,         *)
(* undo_move and get_valid_moves, white_king_location is the square        *)
(* holding wK and black_king_location is the square holding bK.            *)
C2_KingCache == KingCacheMatches(gamestate)

(* C3: checkmate detection.  Whenever get_valid_moves returns an empty     *)
(* list while the king of the side to move is in check, it sets checkmate  *)
(* and does not set stalemate (as after 1. f3 e5 2. g4 Qh4).               *)
C3_CheckmateDetected ==
    ( /\ hist.op = "get_valid_moves"
      /\ valid_moves = << >>
      /\ KingAttacked(gamestate.board, SideToMove(gamestate)) )
        => /\ gamestate.checkmate
           /\ gamestate.stalemate = hist.pre.stalemate

(* C4: the search leaves the game state as it found it.  When              *)
(* find_best_move has returned, the board, the side to move, both cached   *)
(* king locations, the castling rights, the en-passant target and the      *)
(* length of the move log are what they were before the call; the same     *)
(* holds at every node of the search between one child's undo_move and the *)
(* next child's make_move, against the position the node's loop began on.  *)
C4_SearchRestores ==
    /\ (pc = "loop" /\ Top.i > 1) => Position(gamestate) = Top.entry
    /\ pc = "returned" => Position(gamestate) = Position(hist.pre)

Captures(moves) == {i \in 1..Len(moves) : moves[i].piece_captured # EMPTY}

(* C5: at depth 1, on a position where exactly one legal move captures an  *)
(* enemy piece and every other legal move captures nothing, find_best_move *)
(* returns the capturing move, for white and for black to move.            *)
C5_TakesTheCapture ==
    ( /\ pc = "returned"
      /\ stack[1].depth = 1
      /\ Cardinality(Captures(stack[1].moves)) = 1
      /\ \A i \in 1..Len(stack[1].moves) :
             ~stack[1].moves[i].is_en_passant_move )
        => \E i \in Captures(stack[1].moves) :
               best_move = << stack[1].moves[i] >>

MaxOf(scores) ==
    CHOOSE m \in {scores[i] : i \in 1..Len(scores)} :
        \A i \in 1..Len(scores) : scores[i] <= m

MinOf(scores) ==
    CHOOSE m \in {scores[i] : i \in 1..Len(scores)} :
        \A i \in 1..Len(scores) : m <= scores[i]

(* The best of the scores for the side to move on the position a frame's   *)
(* loop began on: the maximum for white, the minimum for black.            *)
BestFor(frame) ==
    IF frame.entry.white_to_move THEN MaxOf(frame.scores)
    ELSE MinOf(frame.scores)

(* C6: minimax roles.  The move find_best_move keeps is a candidate whose  *)
(* search score is the best for the side that was to move before the call  *)
(* (the maximum of the white-positive evaluation for white, the minimum    *)
(* for black), and a minmax node that has tried all its moves holds the    *)
(* maximum of its children's scores when white is to move at the node and  *)
(* the minimum when black is.                                              *)
C6_MinimaxRoles ==
    /\ pc = "returned"
         => \E i \in 1..Len(stack[1].moves) :
                /\ best_move = << stack[1].moves[i] >>
                /\ stack[1].scores[i] = BestFor(stack[1])
    /\ ( /\ pc = "loop"
         /\ Top.kind = "minmax"
         /\ Top.i > Len(Top.moves)
         /\ Len(Top.moves) > 0
         /\ ~Top.pruned )
         => Top.score = BestFor(Top)

(* C7: the terminal flags describe the current position.  checkmate and    *)
(* stalemate are never both true, and whenever one of them is true the     *)
(* side to move has no legal move in the current position.                 *)
C7_FlagsDescribePosition ==
    /\ ~(gamestate.checkmate /\ gamestate.stalemate)
    /\ (gamestate.checkmate \/ gamestate.stalemate)
         => Len(get_valid_moves(gamestate).moves) = 0

(* C8: legal-move soundness.  A move returned by get_valid_moves on a      *)
(* legal position does not leave the mover's own king attacked after       *)
(* make_move, en-passant captures and castling included.                   *)
C8_MoverKingSafe ==
    (hist.op = "make_move" /\ LegalPosition(hist.pre))
        => ~KingAttacked(gamestate.board, SideToMove(hist.pre))

(* The terminal evaluation of a position without legal moves: the          *)
(* checkmate score with the sign of the winner, the stalemate score when   *)
(* the king is not attacked.                                               *)
TerminalEvaluation(gs) ==
    IF KingAttacked(gs.board, SideToMove(gs))
    THEN IF gs.white_to_move THEN -CHECKMATE_SCORE ELSE CHECKMATE_SCORE
    ELSE STALEMATE_SCORE

(* C9: empty move list below the root.  A minmax call entered with         *)
(* remaining depth > 0 on a position whose side to move has no legal move  *)
(* returns the terminal evaluation of that position.                       *)
C9_EmptyListIsTerminal ==
    ( /\ pc = "return"
      /\ call.depth > 0
      /\ Len(get_valid_moves(gamestate).moves) = 0 )
        => ret = TerminalEvaluation(gamestate)

(* The squares between king and rook, and the squares the king crosses or  *)
(* lands on, for a castling move from (row, col) to end_col.               *)
BetweenKingAndRook(col, end_col) ==
    IF end_col > col THEN (col + 1)..6 ELSE 1..(col - 1)

KingPath(col, end_col) ==
    IF end_col > col THEN (col + 1)..end_col ELSE end_col..(col - 1)

HoldsRight(gs, kingside) ==
    IF gs.white_to_move
    THEN IF kingside THEN gs.current_castling_rights.wks
         ELSE gs.current_castling_rights.wqs
    ELSE IF kingside THEN gs.current_castling_rights.bks
         ELSE gs.current_castling_rights.bqs

CastlingAllowed(gs, move) ==
    /\ ~Attacked(gs.board, Other(SideToMove(gs)),
                 move.start_row, move.start_col)
    /\ HoldsRight(gs, move.end_col > move.start_col)
    /\ \A c \in BetweenKingAndRook(move.start_col, move.end_col) :
           At(gs.board, move.start_row, c) = EMPTY
    /\ \A c \in KingPath(move.start_col, move.end_col) :
           ~Attacked(gs.board, Other(SideToMove(gs)), move.start_row, c)

(* C10: castling preconditions.  get_valid_moves returns a castling move   *)
(* only if the king's square is not attacked, the side to move holds the   *)
(* right for that side of the board, every square between king and rook is *)
(* empty, and no square the king crosses or lands on is attacked by an     *)
(* enemy piece, a pawn attacking the empty square diagonally included.     *)
C10_CastlingPreconditions ==
    hist.op = "get_valid_moves"
        => \A i \in 1..Len(valid_moves) :
               valid_moves[i].castle => CastlingAllowed(gamestate, valid_moves[i])
(* C11: the starting position.  get_valid_moves on the object GameState()  *)
(* constructs returns exactly 20 moves, 16 of pawns and 4 of knights, and  *)
(* sets neither checkmate nor stalemate.                                   *)
C11_TwentyOpeningMoves ==
    (hist.op = "get_valid_moves" /\ hist.pre = NewGameState)
        => /\ Len(valid_moves) = 20
           /\ Cardinality({i \in 1..Len(valid_moves) :
                              valid_moves[i].piece_moved[2] = "P"}) = 16
           /\ Cardinality({i \in 1..Len(valid_moves) :
                              valid_moves[i].piece_moved[2] = "N"}) = 4
           /\ ~gamestate.checkmate
           /\ ~gamestate.stalemate

C11_OpeningListReturned ==
    /\ hist.op = "get_valid_moves"
    /\ hist.pre = NewGameState
    /\ Len(valid_moves) = 20

(* The moves of a list, each by its identity key. *)
MoveIDs(moves) == {moves[i].moveID : i \in 1..Len(moves)}

(* C12: get_valid_moves is idempotent.  Called again right after it has    *)
(* returned, with no make_move or undo_move in between, it returns the     *)
(* same set of moves as the first call did.                                *)
C12_SecondCallAgrees ==
    hist.op = "get_valid_moves"
        => MoveIDs(get_valid_moves(gamestate).moves) = MoveIDs(valid_moves)

(* C13: stalemate detection.  When get_valid_moves returns an empty list   *)
(* and the king of the side to move is not attacked, it has set stalemate  *)
(* to true and left checkmate false.                                       *)
C13_StalemateDetected ==
    (/\ hist.op = "get_valid_moves"
     /\ valid_moves = << >>
     /\ ~KingAttacked(gamestate.board, SideToMove(gamestate)))
        => gamestate.stalemate /\ ~gamestate.checkmate

C13_NoMoveAndNoCheck ==
    /\ hist.op = "get_valid_moves"
    /\ valid_moves = << >>
    /\ ~hist.pre.stalemate
    /\ ~KingAttacked(gamestate.board, SideToMove(gamestate))

(* C14: undo_move on an empty move log changes nothing: the board, the    *)
(* side to move, the king locations, the castling rights and their log,    *)
(* the en-passant target and the flags are what they were.                 *)
C14_UndoOnEmptyLog ==
    (/\ hist.op = "undo_move"
     /\ ~hist.round_trip
     /\ hist.pre.move_log = << >>)
        => gamestate = hist.pre

C14_UndoneWithEmptyLog ==
    /\ hist.op = "undo_move"
    /\ ~hist.round_trip
    /\ hist.pre.move_log = << >>
    /\ gamestate.white_to_move

RightNames == {"wks", "bks", "wqs", "bqs"}

(* C15: castling rights.  A make_move never turns a right from false to    *)
(* true, and an undo_move restores exactly the four values held before the *)
(* make_move it undoes.                                                    *)
C15_CastlingRights ==
    /\ hist.op = "make_move"
          => \A right \in RightNames :
                 gamestate.current_castling_rights[right]
                     => hist.pre.current_castling_rights[right]
    /\ (hist.op = "undo_move" /\ hist.round_trip)
          => gamestate.current_castling_rights
                 = hist.pre.current_castling_rights

(* A move that took a right away was made and has been undone. *)
C15_LostRightRestored ==
    /\ hist.op = "undo_move"
    /\ hist.round_trip
    /\ \E i \in 1..Len(valid_moves) :
          /\ make_move(hist.pre, valid_moves[i], "Q").current_castling_rights
                 # hist.pre.current_castling_rights
          /\ gamestate = undo_move(make_move(hist.pre, valid_moves[i], "Q"))

LastMove(gs) == gs.move_log[Len(gs.move_log)]

(* The squares a pawn passed over when it advanced two squares. *)
PassedOver(move) ==
    {sq \in Squares :
        /\ move.piece_moved[2] = "P"
        /\ sq[2] = move.start_col /\ move.end_col = move.start_col
        /\ \/ (move.start_row < sq[1] /\ sq[1] < move.end_row)
           \/ (move.end_row < sq[1] /\ sq[1] < move.start_row)
        /\ Abs(move.end_row - move.start_row) = 2}

(* C16: the en-passant window.  After every make_move the en-passant       *)
(* target is the square passed over when the move was a two-square pawn    *)
(* advance, and is empty after any other move.                             *)
C16_EnPassantWindow ==
    hist.op = "make_move"
        => IF PassedOver(LastMove(gamestate)) = {}
           THEN gamestate.en_passant_possible = << >>
           ELSE gamestate.en_passant_possible \in PassedOver(LastMove(gamestate))

(* A move other than a two-square pawn advance was made while a target was *)
(* set.                                                                    *)
C16_WindowClosed ==
    /\ hist.op = "make_move"
    /\ hist.pre.en_passant_possible # << >>
    /\ PassedOver(LastMove(gamestate)) = {}

(* C17: automated promotion.  Every make_move that find_best_move and      *)
(* minmax perform while searching puts a queen of the pawn's colour on the *)
(* far rank when the move is a promotion, whatever an external choice      *)
(* would be.                                                               *)
C17_SearchPromotesToQueen ==
    (/\ pc = "enter"
     /\ LastMove(gamestate).is_pawn_promotion)
        => At(gamestate.board, LastMove(gamestate).end_row,
              LastMove(gamestate).end_col)
               = Piece(LastMove(gamestate).piece_moved[1], "Q")

(***************************************************************************)
(* Move equality                                                           *)
(***************************************************************************)
(* A faulty variant of Move.__eq__ that compares the end squares only. *)
EqualEndSquares(self, other) ==
    self.moveID % 100 = other.moveID % 100

(* Move.__eq__(self, other) for another Move: the identity keys match. *)
Move_eq(self, other) == self.moveID = other.moveID

(* The starting position seen from the other side: every square holds a    *)
(* piece other than the one InitialBoard has there, or both are empty.     *)
MirrorBoard == [row \in 1..8 |-> InitialBoard[9 - row]]

(* The coordinates a move is compared with: those that share its start     *)
(* square or its end square, and those that hold its four numbers in       *)
(* another order.                                                          *)
ComparedWith(self) ==
    LET sr == self.start_row
        sc == self.start_col
        er == self.end_row
        ec == self.end_col
    IN  {<<(<<sr, sc>>), sq>> : sq \in Squares}
            \cup {<<sq, (<<er, ec>>)>> : sq \in Squares}
            \cup { <<(<<er, ec>>), (<<sr, sc>>)>>, <<(<<sc, sr>>), (<<ec, er>>)>>,
                    <<(<<sr, er>>), (<<sc, ec>>)>>, <<(<<ec, er>>), (<<sc, sr>>)>>,
                    <<(<<sc, er>>), (<<ec, sr>>)>>, <<(<<er, sc>>), (<<sr, ec>>)>> }

(* The moves compared with self: one on each pair of ComparedWith, and on  *)
(* self's own squares the moves built from either board with either flag.  *)
OtherMoves(self) ==
    {Move(pair[1], pair[2], InitialBoard, FALSE, FALSE) :
         pair \in ComparedWith(self)}
        \cup {Move(<<self.start_row, self.start_col>>,
                   <<self.end_row, self.end_col>>, board, enPassant, castle) :
                 board \in {InitialBoard, MirrorBoard},
                 enPassant \in BOOLEAN, castle \in BOOLEAN}

(* move = Move(player_clicks[0], player_clicks[1], gamestate.board), for    *)
(* any two squares of the board.                                           *)
MoveInit ==
    /\ gamestate = NewGameState
    /\ \E startSq \in Squares, endSq \in Squares :
          valid_moves = << Move(startSq, endSq, gamestate.board, FALSE, FALSE) >>
    /\ hist = [op |-> "Move", pre |-> NewGameState, round_trip |-> FALSE,
               undone |-> 0]
    /\ pc = "idle"
    /\ stack = << >>
    /\ call = NoCall
    /\ ret = FALSE
    /\ best_move = << >>

(* move == other: valid_moves holds the two operands and ret the result. *)
CompareMoves ==
    /\ hist.op = "Move"
    /\ \E other \in OtherMoves(valid_moves[1]) :
          /\ valid_moves' = << valid_moves[1], other >>
          /\ ret' = Move_eq(valid_moves[1], other)
    /\ hist' = [hist EXCEPT !.op = "__eq__"]
    /\ UNCHANGED <<gamestate, pc, stack, call, best_move>>

(* str(n) for the numbers 8 - row. *)
str(n) == <<"1", "2", "3", "4", "5", "6", "7", "8">>[n]

cols_to_letters == [col \in 0..7 |-> <<"a", "b", "c", "d", "e", "f", "g", "h">>[col + 1]]

(* A faulty variant of get_chess_notation that counts the ranks from row 0. *)
NotationFromTop(self) ==
    (cols_to_letters[self.start_col] \o str(self.start_row + 1))
        \o (cols_to_letters[self.end_col] \o str(self.end_row + 1))

(* Move.get_chess_notation(self): start_square + end_square. *)
get_chess_notation(self) ==
    (cols_to_letters[self.start_col] \o str(8 - self.start_row))
        \o (cols_to_letters[self.end_col] \o str(8 - self.end_row))

(* move.get_chess_notation(): ret holds the string. *)
GetChessNotation ==
    /\ hist.op = "Move"
    /\ ret' = get_chess_notation(valid_moves[1])
    /\ hist' = [hist EXCEPT !.op = "get_chess_notation"]
    /\ UNCHANGED <<gamestate, valid_moves, pc, stack, call, best_move>>

MoveNext ==
    \/ CompareMoves
    \/ GetChessNotation

MoveSpec == MoveInit /\ [][MoveNext]_vars

SameSquares(self, other) ==
    /\ self.start_row = other.start_row
    /\ self.start_col = other.start_col
    /\ self.end_row = other.end_row
    /\ self.end_col = other.end_col

(* C18: Move equality.  Two moves on the 8x8 board compare equal exactly    *)
(* when their start row, start column, end row and end column are equal,   *)
(* whatever their moved piece, captured piece and flags are.               *)
C18_EqualIffSameSquares ==
    hist.op = "__eq__"
        => (ret <=> SameSquares(valid_moves[1], valid_moves[2]))

(* Two moves on the same squares that differ in a piece or a flag were     *)
(* compared.                                                               *)
C18_SameSquaresOtherFields ==
    /\ hist.op = "__eq__"
    /\ SameSquares(valid_moves[1], valid_moves[2])
    /\ valid_moves[1].piece_moved # valid_moves[2].piece_moved
    /\ valid_moves[1].castle # valid_moves[2].castle
    /\ ret = TRUE

(***************************************************************************)
(* Positions                                                               *)
(***************************************************************************)
EmptyBoard == [row \in 1..8 |-> [col \in 1..8 |-> EMPTY]]

(* The squares the king of the side to move stands on, and the square of   *)
(* the other king, which is next to none of them.                          *)
AllyKingSquares == {<<7, 4>>, <<4, 3>>}

EnemyKingSquare == <<0, 0>>

(* Pawns stand on neither back rank. *)
MayStand(kind, sq) == kind # "P" \/ (sq[1] # 0 /\ sq[1] # 7)

(* The pieces put on the board beside the kings: one of the other side on  *)
(* any square, then none or one more of either side on a square next to    *)
(* the king, where it stands in the way of a ray.                          *)
SecondPieces(ally) == {EMPTY, Piece(ally, "B"), Piece(Other(ally), "R")}

SecondSquares(king) ==
    {sq \in Squares :
        /\ sq # king
        /\ Abs(sq[1] - king[1]) <= 1
        /\ Abs(sq[2] - king[2]) <= 1}

Placed(board, sq, piece) ==
    IF piece = EMPTY THEN board ELSE Put(board, sq[1], sq[2], piece)

(* A GameState in the position: both kings, with the castling rights       *)
(* their moves have cleared, and the two pieces.  The moves that led to    *)
(* the position are left out of the logs.                                  *)
PositionOf(ally, king, kind, first, piece, second) ==
    [NewGameState EXCEPT
        !.board = Placed(Put(Put(Put(EmptyBoard, king[1], king[2],
                                     Piece(ally, "K")),
                                 EnemyKingSquare[1], EnemyKingSquare[2],
                                 Piece(Other(ally), "K")),
                             first[1], first[2], Piece(Other(ally), kind)),
                         second, piece),
        !.white_to_move = (ally = "w"),
        !.white_king_location = IF ally = "w" THEN king ELSE EnemyKingSquare,
        !.black_king_location = IF ally = "b" THEN king ELSE EnemyKingSquare,
        !.current_castling_rights = CastleRights(FALSE, FALSE, FALSE, FALSE),
        !.castle_rights_log = << CastleRights(FALSE, FALSE, FALSE, FALSE) >>]

PositionInit ==
    /\ \E ally \in {"w", "b"}, king \in AllyKingSquares,
          kind \in {"R", "B", "Q", "N", "P"},
          first \in Squares \ {EnemyKingSquare} :
          \E second \in SecondSquares(king), piece \in SecondPieces(ally) :
            /\ first # king /\ first # second
            /\ MayStand(kind, first)
            /\ gamestate = PositionOf(ally, king, kind, first, piece, second)
    /\ valid_moves = << >>
    /\ hist = [op |-> "position", pre |-> gamestate, round_trip |-> FALSE,
               undone |-> 0]
    /\ pc = "idle"
    /\ stack = << >>
    /\ call = NoCall
    /\ ret = 0
    /\ best_move = << >>

(* self.check_for_pins_and_checks(): ret holds what it returns. *)
CheckForPinsAndChecks ==
    /\ hist.op = "position"
    /\ ret' = check_for_pins_and_checks(gamestate)
    /\ hist' = [hist EXCEPT !.op = "check_for_pins_and_checks"]
    /\ UNCHANGED <<gamestate, valid_moves, pc, stack, call, best_move>>

PositionNext == CheckForPinsAndChecks

PositionSpec == PositionInit /\ [][PositionNext]_vars

Sign(x) == IF x < 0 THEN -1 ELSE IF x > 0 THEN 1 ELSE 0

Larger(x, y) == IF x < y THEN y ELSE x

(* The squares strictly between two squares of a rank, file or diagonal. *)
Between(from, to) ==
    {<<from[1] + Sign(to[1] - from[1]) * m, from[2] + Sign(to[2] - from[2]) * m>> :
        m \in 1..(Larger(Abs(to[1] - from[1]), Abs(to[2] - from[2])) - 1)}

OnLine(from, to) == from[1] = to[1] \/ from[2] = to[2]

OnDiagonal(from, to) == Abs(from[1] - to[1]) = Abs(from[2] - to[2])

(* The piece on `from` attacks the square `to` by the rules of chess. *)
PieceAttacks(board, from, to) ==
    LET piece == AtSq(board, from)
        clear == \A sq \in Between(from, to) : AtSq(board, sq) = EMPTY
    IN  /\ from # to
        /\ CASE piece[2] = "N" ->
                   {Abs(from[1] - to[1]), Abs(from[2] - to[2])} = {1, 2}
              [] piece[2] = "K" ->
                   Abs(from[1] - to[1]) <= 1 /\ Abs(from[2] - to[2]) <= 1
              [] piece[2] = "P" ->
                   /\ to[1] = from[1] + (IF piece[1] = "w" THEN -1 ELSE 1)
                   /\ Abs(from[2] - to[2]) = 1
              [] piece[2] = "R" -> OnLine(from, to) /\ clear
              [] piece[2] = "B" -> OnDiagonal(from, to) /\ clear
              [] piece[2] = "Q" ->
                   (OnLine(from, to) \/ OnDiagonal(from, to)) /\ clear
              [] OTHER -> FALSE

(* The squares of the pieces of colour `by` that attack `to`. *)
Attackers(board, by, to) ==
    {from \in Squares :
        AtSq(board, from)[1] = by /\ PieceAttacks(board, from, to)}

(* The checks entry for an attacker: its square, and the direction from    *)
(* the king to it, which for a knight is the jump itself.                  *)
CheckEntry(board, king, from) ==
    IF AtSq(board, from)[2] = "N"
    THEN <<from[1], from[2], from[1] - king[1], from[2] - king[2]>>
    ELSE <<from[1], from[2], Sign(from[1] - king[1]), Sign(from[2] - king[2])>>

CachedKing(gs) ==
    IF gs.white_to_move THEN gs.white_king_location ELSE gs.black_king_location

SeqToSet(seq) == {seq[i] : i \in 1..Len(seq)}

(* C19: check analysis.  check_for_pins_and_checks reports in_check        *)
(* exactly when an enemy piece attacks the cached square of the king of    *)
(* the side to move, with one checks entry for each attacking piece: its   *)
(* square and the direction from the king.  For a white king on e1 and a   *)
(* black rook on e8 with the e-file empty between them that is the one     *)
(* entry (0, 4, -1, 0).                                                    *)
C19_ChecksAreAttackers ==
    hist.op = "check_for_pins_and_checks"
        => LET attackers == Attackers(gamestate.board,
                                      Other(SideToMove(gamestate)),
                                      CachedKing(gamestate))
           IN  /\ ret.in_check <=> attackers # {}
               /\ Len(ret.checks) = Cardinality(attackers)
               /\ SeqToSet(ret.checks)
                      = {CheckEntry(gamestate.board, CachedKing(gamestate), from) :
                           from \in attackers}

(* The analysis has run with a white king on e1, a black rook on e8 and    *)
(* the e-file empty between them, and has returned the one entry.          *)
C19_RookOnOpenFile ==
    /\ hist.op = "check_for_pins_and_checks"
    /\ gamestate.white_to_move
    /\ gamestate.white_king_location = <<7, 4>>
    /\ At(gamestate.board, 7, 4) = Piece("w", "K")
    /\ At(gamestate.board, 0, 4) = Piece("b", "R")
    /\ \A row \in 1..6 : At(gamestate.board, row, 4) = EMPTY
    /\ ret.in_check
    /\ ret.checks = << <<0, 4, -1, 0>> >>

(***************************************************************************)
(* Pawn generation                                                         *)
(***************************************************************************)
Forward(colour) == IF colour = "w" THEN -1 ELSE 1

HomeRank(colour) == IF colour = "w" THEN 6 ELSE 1

(* The object as get_valid_moves hands it to the generators: the pins of   *)
(* the analysis are stored.                                                *)
WithPins(gs) == [gs EXCEPT !.pins = check_for_pins_and_checks(gs).pins]

(* A pawn of the side to move stands on sq, on its home rank, with the two *)
(* squares ahead empty; it is not pinned and there is no en-passant        *)
(* target.                                                                 *)
FreeHomePawn(gs, sq) ==
    /\ AtSq(gs.board, sq) = Piece(SideToMove(gs), "P")
    /\ sq[1] = HomeRank(SideToMove(gs))
    /\ At(gs.board, sq[1] + Forward(SideToMove(gs)), sq[2]) = EMPTY
    /\ At(gs.board, sq[1] + 2 * Forward(SideToMove(gs)), sq[2]) = EMPTY
    /\ gs.en_passant_possible = << >>
    /\ \A i \in 1..Len(WithPins(gs).pins) :
           <<WithPins(gs).pins[i][1], WithPins(gs).pins[i][2]>> # sq

(* The forward-diagonal squares of sq that hold a piece of the other side. *)
EnemyDiagonals(gs, sq) ==
    {to \in Squares :
        /\ to[1] = sq[1] + Forward(SideToMove(gs))
        /\ Abs(to[2] - sq[2]) = 1
        /\ AtSq(gs.board, to)[1] = Other(SideToMove(gs))}

(* The two advances and the captures, none of them an en-passant capture   *)
(* or a castle.                                                            *)
HomePawnMoves(gs, sq) ==
    {Move(sq, to, gs.board, FALSE, FALSE) :
        to \in {<<sq[1] + Forward(SideToMove(gs)), sq[2]>>,
                <<sq[1] + 2 * Forward(SideToMove(gs)), sq[2]>>}
               \cup EnemyDiagonals(gs, sq)}

GeneratedFor(gs, sq) == get_pawn_moves(WithPins(gs), sq[1], sq[2], << >>).moves

(* C20: pawn generation.  For an unpinned pawn on its home rank with the   *)
(* two squares ahead empty and no en-passant target, get_pawn_moves yields *)
(* exactly the one-square and the two-square advance and one capture for   *)
(* each forward-diagonal square that holds an enemy piece, none for a      *)
(* diagonal square that is empty or holds a piece of its own colour.       *)
C20_HomePawnMoves ==
    hist.op = "get_valid_moves"
        => \A sq \in Squares :
               FreeHomePawn(hist.pre, sq)
                   => /\ SeqToSet(GeneratedFor(hist.pre, sq))
                             = HomePawnMoves(hist.pre, sq)
                      /\ Len(GeneratedFor(hist.pre, sq))
                             = Cardinality(HomePawnMoves(hist.pre, sq))
                      /\ ~check_for_pins_and_checks(hist.pre).in_check
                             => {valid_moves[i] : i \in
                                    {k \in 1..Len(valid_moves) :
                                        /\ valid_moves[k].start_row = sq[1]
                                        /\ valid_moves[k].start_col = sq[2]}}
                                    = HomePawnMoves(hist.pre, sq)

(* Such a pawn had an enemy piece on one forward diagonal and a piece of   *)
(* its own colour on the other, and the list with its three moves was      *)
(* returned.                                                               *)
C20_CaptureBesideOwnPiece ==
    /\ hist.op = "get_valid_moves"
    /\ \E sq \in Squares :
          /\ FreeHomePawn(hist.pre, sq)
          /\ Cardinality(EnemyDiagonals(hist.pre, sq)) = 1
          /\ \E dc \in {-1, 1} :
                /\ OnBoard(sq[1] + Forward(SideToMove(hist.pre)), sq[2] + dc)
                /\ At(hist.pre.board, sq[1] + Forward(SideToMove(hist.pre)),
                      sq[2] + dc)[1] = SideToMove(hist.pre)
          /\ Cardinality({k \in 1..Len(valid_moves) :
                             /\ valid_moves[k].start_row = sq[1]
                             /\ valid_moves[k].start_col = sq[2]}) = 3

(* The names of the squares of a chess board, row 0 at the top: the rows   *)
(* of the table are the ranks 8 down to 1, the columns the files a to h.   *)
SquareNames ==
    << <<"a8", "b8", "c8", "d8", "e8", "f8", "g8", "h8">>,
       <<"a7", "b7", "c7", "d7", "e7", "f7", "g7", "h7">>,
       <<"a6", "b6", "c6", "d6", "e6", "f6", "g6", "h6">>,
       <<"a5", "b5", "c5", "d5", "e5", "f5", "g5", "h5">>,
       <<"a4", "b4", "c4", "d4", "e4", "f4", "g4", "h4">>,
       <<"a3", "b3", "c3", "d3", "e3", "f3", "g3", "h3">>,
       <<"a2", "b2", "c2", "d2", "e2", "f2", "g2", "h2">>,
       <<"a1", "b1", "c1", "d1", "e1", "f1", "g1", "h1">> >>

(* C21: notation.  For every move on the board get_chess_notation returns  *)
(* the file letter of the start column (a for column 0 to h for column 7)  *)
(* followed by the rank 8 - start_row, then the same for the end square:   *)
(* the name of the start square followed by the name of the end square.    *)
C21_NotationNamesSquares ==
    hist.op = "get_chess_notation"
        => ret = SquareNames[valid_moves[1].start_row + 1]
                            [valid_moves[1].start_col + 1]
                 \o SquareNames[valid_moves[1].end_row + 1]
                               [valid_moves[1].end_col + 1]

(* The move (6, 4) -> (4, 4) was written as "e2e4". *)
C21_KingsPawnOpening ==
    /\ hist.op = "get_chess_notation"
    /\ valid_moves[1].start_row = 6 /\ valid_moves[1].start_col = 4
    /\ valid_moves[1].end_row = 4 /\ valid_moves[1].end_col = 4
    /\ ret = "e2e4"

(***************************************************************************)
(* Pinned pieces                                                           *)
(***************************************************************************)
PinKingSquares == {<<2, 4>>, <<4, 3>>}

MaxPinStep == 3

(* A GameState with both kings, a piece of the side to move at `near` steps *)
(* from its king in direction d and a rook, bishop or queen of the other   *)
(* side `far` steps further on.                                            *)
PinPosition(ally, king, d, near, kind, far, pinner) ==
    PositionOf(ally, king, pinner, Step(king[1], king[2], d, near + far),
               Piece(ally, kind), Step(king[1], king[2], d, near))

PinInit ==
    /\ \E ally \in {"w", "b"}, king \in PinKingSquares, j \in 1..8,
          near \in 1..MaxPinStep, far \in 1..MaxPinStep,
          kind \in {"P", "N", "B", "R", "Q"}, pinner \in {"R", "B", "Q"} :
          /\ OnBoard(king[1] + directions[j][1] * (near + far),
                     king[2] + directions[j][2] * (near + far))
          /\ MayStand(kind, Step(king[1], king[2], directions[j], near))
          /\ gamestate = PinPosition(ally, king, directions[j], near, kind,
                                     far, pinner)
    /\ valid_moves = << >>
    /\ hist = [op |-> "position", pre |-> gamestate, round_trip |-> FALSE,
               undone |-> 0]
    /\ pc = "idle"
    /\ stack = << >>
    /\ call = NoCall
    /\ ret = 0
    /\ best_move = << >>

(* get_valid_moves is called in the position, and again on what it left. *)
PinNext == GetValidMoves

PinSpec == PinInit /\ [][PinNext]_vars

(* The squares a piece on `from` may move to, the safety of its king left  *)
(* aside: the empty or enemy squares it attacks, and for a pawn its        *)
(* advances, its captures and the en-passant capture.                      *)
PseudoLegalTargets(gs, from) ==
    LET piece == AtSq(gs.board, from)
        ahead == <<from[1] + Forward(piece[1]), from[2]>>
        twoAhead == <<from[1] + 2 * Forward(piece[1]), from[2]>>
    IN  IF piece[2] = "P"
        THEN {to \in Squares :
                \/ to = ahead /\ AtSq(gs.board, to) = EMPTY
                \/ /\ to = twoAhead
                   /\ from[1] = HomeRank(piece[1])
                   /\ AtSq(gs.board, ahead) = EMPTY
                   /\ AtSq(gs.board, to) = EMPTY
                \/ /\ PieceAttacks(gs.board, from, to)
                   /\ \/ AtSq(gs.board, to)[1] = Other(piece[1])
                      \/ to = gs.en_passant_possible}
        ELSE {to \in Squares :
                /\ PieceAttacks(gs.board, from, to)
                /\ AtSq(gs.board, to)[1] # piece[1]}

(* The pieces that pin the piece on sq to the king on `king`: the rooks,   *)
(* bishops and queens of the other side that would attack the king if the  *)
(* piece were lifted from the board, and do not attack it now.             *)
PinnersOf(board, king, sq) ==
    {from \in Squares :
        /\ AtSq(board, from)[1] = Other(AtSq(board, king)[1])
        /\ ~PieceAttacks(board, from, king)
        /\ PieceAttacks(Put(board, sq[1], sq[2], EMPTY), from, king)}

(* The squares of the line from the king to the pinning piece, the         *)
(* pinner's square included.                                               *)
PinLine(king, pinner) == Between(king, pinner) \cup {pinner}

TargetsReturned(moves, from) ==
    {<<moves[i].end_row, moves[i].end_col>> :
        i \in {k \in 1..Len(moves) :
                 moves[k].start_row = from[1] /\ moves[k].start_col = from[2]}}

(* A piece of the side to move, other than the king, that one piece pins. *)
PinnedPieces(gs) ==
    {sq \in Squares :
        /\ AtSq(gs.board, sq)[1] = SideToMove(gs)
        /\ AtSq(gs.board, sq)[2] # "K"
        /\ Cardinality(PinnersOf(gs.board, CachedKing(gs), sq)) = 1}

PinnerOf(gs, sq) == CHOOSE from \in PinnersOf(gs.board, CachedKing(gs), sq) : TRUE

(* C22: the pin rule.  For every piece pinned to its king, the moves       *)
(* get_valid_moves returns for it are exactly its pseudo-legal moves that  *)
(* stay on the line of the pin, in either direction, or capture the        *)
(* pinning piece; a pawn pinned along its file by a rook or queen behind   *)
(* it can still advance.                                                   *)
C22_PinnedMovesStayOnLine ==
    (/\ hist.op = "get_valid_moves"
     /\ KingCacheMatches(hist.pre)
     /\ ~KingAttacked(hist.pre.board, SideToMove(hist.pre)))
        => \A sq \in PinnedPieces(hist.pre) :
               TargetsReturned(valid_moves, sq)
                   = PseudoLegalTargets(hist.pre, sq)
                         \cap PinLine(CachedKing(hist.pre), PinnerOf(hist.pre, sq))

FarRank(colour) == IF colour = "w" THEN 0 ELSE 7

(* C23: the flags of generated moves.  Every move get_valid_moves returns  *)
(* has the en-passant flag set only if it is a diagonal pawn move onto the *)
(* current en-passant target, and has the promotion flag set exactly when  *)
(* it moves a pawn onto the far rank.                                      *)
C23_FlagsOfReturnedMoves ==
    hist.op = "get_valid_moves"
        => \A i \in 1..Len(valid_moves) :
               /\ valid_moves[i].is_en_passant_move
                     => /\ valid_moves[i].piece_moved[2] = "P"
                        /\ Abs(valid_moves[i].end_col
                                   - valid_moves[i].start_col) = 1
                        /\ <<valid_moves[i].end_row, valid_moves[i].end_col>>
                               = gamestate.en_passant_possible
               /\ valid_moves[i].is_pawn_promotion
                     <=> /\ valid_moves[i].piece_moved[2] = "P"
                         /\ valid_moves[i].end_row
                                = FarRank(valid_moves[i].piece_moved[1])

(* The square the king of `colour` stands on. *)
KingSquare(board, colour) == CHOOSE sq \in KingSquares(board, colour) : TRUE

(* The pieces that give check to the side to move. *)
Checkers(gs) ==
    Attackers(gs.board, Other(SideToMove(gs)),
              KingSquare(gs.board, SideToMove(gs)))

(* The squares on which a check by the piece on `checker` is answered by   *)
(* another piece than the king: the line from the king to it, its own      *)
(* square included, and its own square only when it is a knight.           *)
AnswerSquares(gs, checker) ==
    IF AtSq(gs.board, checker)[2] = "N" THEN {checker}
    ELSE PinLine(KingSquare(gs.board, SideToMove(gs)), checker)

IsKingMove(move) == move.piece_moved[2] = "K"

IsCastling(move) ==
    move.castle \/ (IsKingMove(move) /\ Abs(move.end_col - move.start_col) = 2)

(* C24: the response to check.  In single check every move get_valid_moves *)
(* returns that is not a king move lands on the line from the king to the  *)
(* checking piece, its square included (only on its square when it is a    *)
(* knight); in check by two or more pieces every returned move is a king   *)
(* move; in both cases no castling move is returned.                       *)
C24_ResponseToCheck ==
    (hist.op = "get_valid_moves" /\ Checkers(hist.pre) # {})
        => \A i \in 1..Len(valid_moves) :
               /\ ~IsCastling(valid_moves[i])
               /\ IsKingMove(valid_moves[i])
                     \/ /\ Cardinality(Checkers(hist.pre)) = 1
                        /\ \A checker \in Checkers(hist.pre) :
                               <<valid_moves[i].end_row, valid_moves[i].end_col>>
                                   \in AnswerSquares(hist.pre, checker)

PiecesOf(board, colour) == {sq \in Squares : AtSq(board, sq)[1] = colour}

ChangedSquares(before, after) ==
    {sq \in Squares : AtSq(before, sq) # AtSq(after, sq)}

(* The move is an en-passant capture on `board`: a pawn moves diagonally   *)
(* onto an empty square.                                                   *)
CapturesEnPassant(board, move) ==
    /\ move.piece_moved[2] = "P"
    /\ move.start_col # move.end_col
    /\ At(board, move.end_row, move.end_col) = EMPTY

(* The square of the pawn an en-passant capture takes: the rank the        *)
(* capturing pawn starts from, the file it lands on.                       *)
PassedPawnSquare(move) == <<move.start_row, move.end_col>>

(* The corner the rook of a castling move comes from and the square the    *)
(* king crosses, where it goes.                                            *)
RookCorner(move) ==
    <<move.start_row, IF move.end_col > move.start_col THEN 7 ELSE 0>>

CrossedSquare(move) == <<move.start_row, (move.start_col + move.end_col) \div 2>>

(* The squares a move may change. *)
SquaresOfMove(board, move) ==
    {<<move.start_row, move.start_col>>, <<move.end_row, move.end_col>>}
        \cup (IF CapturesEnPassant(board, move)
              THEN {PassedPawnSquare(move)} ELSE {})
        \cup (IF IsCastling(move)
              THEN {RookCorner(move), CrossedSquare(move)} ELSE {})

(* C25: material conservation.  make_move of a move get_valid_moves        *)
(* returned removes at most one piece from the board, a piece of the       *)
(* mover's opponent, and changes no square other than the origin, the      *)
(* destination, the square of the pawn captured en passant and the two     *)
(* squares of the castling rook; promotions, by capture too, included.     *)
C25_MaterialConserved ==
    hist.op = "make_move"
        => LET move == LastMove(gamestate)
               mover == move.piece_moved[1]
           IN  /\ Cardinality(PiecesOf(gamestate.board, mover))
                      = Cardinality(PiecesOf(hist.pre.board, mover))
               /\ Cardinality(PiecesOf(hist.pre.board, Other(mover)))
                      - Cardinality(PiecesOf(gamestate.board, Other(mover)))
                      \in {0, 1}
               /\ ChangedSquares(hist.pre.board, gamestate.board)
                      \subseteq SquaresOfMove(hist.pre.board, move)

HomeSquare(colour) == <<IF colour = "w" THEN 7 ELSE 0, 4>>

(* C26: castling needs its rook.  Each castling move get_valid_moves       *)
(* returns has a rook of the mover's colour on the corner of its side, so  *)
(* that after make_move the king stands two squares from its home square   *)
(* with that rook on the square it crossed; a rook taken on its corner     *)
(* without having moved leaves no castling on that side.                   *)
C26_CastlingNeedsRook ==
    /\ hist.op = "get_valid_moves"
          => \A i \in 1..Len(valid_moves) :
                 IsCastling(valid_moves[i])
                     => AtSq(gamestate.board, RookCorner(valid_moves[i]))
                            = Piece(valid_moves[i].piece_moved[1], "R")
    /\ (hist.op = "make_move" /\ IsCastling(LastMove(gamestate)))
          => LET move == LastMove(gamestate)
                 mover == move.piece_moved[1]
             IN  /\ <<move.start_row, move.start_col>> = HomeSquare(mover)
                 /\ At(gamestate.board, move.end_row, move.end_col)
                        = Piece(mover, "K")
                 /\ Abs(move.end_col - move.start_col) = 2
                 /\ AtSq(gamestate.board, CrossedSquare(move))
                        = Piece(mover, "R")

(* The move is an en-passant capture in gs: flagged as one, and a pawn's   *)
(* diagonal move onto the empty en-passant target.                         *)
IsEnPassantCapture(gs, move) ==
    /\ move.is_en_passant_move
    /\ CapturesEnPassant(gs.board, move)
    /\ <<move.end_row, move.end_col>> = gs.en_passant_possible

(* The move castles in gs with the mover's rook on the corner. *)
IsCastlingWithRook(gs, move) ==
    /\ IsCastling(move)
    /\ AtSq(gs.board, RookCorner(move)) = Piece(move.piece_moved[1], "R")

(* The moves of the list whose make_move and undo_move lead from `before`  *)
(* to `after`.                                                             *)
UndoneMoves(before, moves, after) ==
    {i \in 1..Len(moves) : after = undo_move(make_move(before, moves[i], "Q"))}

(* C29: board effects of en passant and castling.  make_move of an         *)
(* en-passant capture empties the square of the passed pawn, on the rank   *)
(* the capturing pawn started from and the file it lands on; make_move of  *)
(* a castle moves the rook from its corner to the square the king crossed; *)
(* undo_move of either restores every square of the board, the captured    *)
(* pawn one rank behind the landing square and the rook on its corner.     *)
C29_SpecialMoveBoardEffects ==
    /\ (hist.op = "make_move"
         /\ IsEnPassantCapture(hist.pre, LastMove(gamestate)))
          => /\ AtSq(gamestate.board, PassedPawnSquare(LastMove(gamestate)))
                    = EMPTY
             /\ AtSq(hist.pre.board, PassedPawnSquare(LastMove(gamestate)))
                    = Piece(Other(LastMove(gamestate).piece_moved[1]), "P")
             /\ At(gamestate.board, LastMove(gamestate).end_row,
                   LastMove(gamestate).end_col)
                    = LastMove(gamestate).piece_moved
    /\ (hist.op = "make_move"
         /\ IsCastlingWithRook(hist.pre, LastMove(gamestate)))
          => /\ AtSq(gamestate.board, RookCorner(LastMove(gamestate))) = EMPTY
             /\ AtSq(gamestate.board, CrossedSquare(LastMove(gamestate)))
                    = Piece(LastMove(gamestate).piece_moved[1], "R")
    /\ (hist.op = "undo_move" /\ hist.round_trip)
          => \A i \in UndoneMoves(hist.pre, valid_moves, gamestate) :
                 (\/ IsEnPassantCapture(hist.pre, valid_moves[i])
                  \/ IsCastlingWithRook(hist.pre, valid_moves[i]))
                     => gamestate.board = hist.pre.board

(* An en-passant capture was made and has been undone. *)
C29_EnPassantUndone ==
    /\ hist.op = "undo_move"
    /\ hist.round_trip
    /\ \E i \in UndoneMoves(hist.pre, valid_moves, gamestate) :
          IsEnPassantCapture(hist.pre, valid_moves[i])

(* The rank the pieces of a colour start on. *)
BackRank(colour) == IF colour = "w" THEN 7 ELSE 0

(* The rights a move takes away by the rule: both of the mover's colour    *)
(* for a king move, the side of the corner for a rook leaving a corner of  *)
(* its own back rank, none otherwise.                                      *)
RightsTaken(move) ==
    IF move.piece_moved[2] = "K"
    THEN {move.piece_moved[1] \o "ks", move.piece_moved[1] \o "qs"}
    ELSE IF /\ move.piece_moved[2] = "R"
            /\ move.start_row = BackRank(move.piece_moved[1])
            /\ move.start_col \in {0, 7}
    THEN {move.piece_moved[1] \o (IF move.start_col = 0 THEN "qs" ELSE "ks")}
    ELSE {}

(* C30: castling-rights update rule.  After make_move a king move has      *)
(* cleared both rights of its colour, a rook move starting from a corner   *)
(* of its colour's back rank has cleared the right of that side only, and  *)
(* every other move, a capture of a rook on its home square included,      *)
(* leaves all four flags as they were.                                     *)
C30_CastlingRightsUpdate ==
    hist.op = "make_move"
      => \A n \in RightNames :
             gamestate.current_castling_rights[n]
               = (/\ hist.pre.current_castling_rights[n]
                  /\ n \notin RightsTaken(LastMove(gamestate)))

(* A rook was captured on its home square while its side still had the     *)
(* right, and the right is kept.                                           *)
C30_RookCapturedRightKept ==
    /\ hist.op = "make_move"
    /\ LastMove(gamestate).piece_captured = <<"b", "R">>
    /\ LastMove(gamestate).end_row = 0
    /\ LastMove(gamestate).end_col = 7
    /\ hist.pre.current_castling_rights.bks
    /\ gamestate.current_castling_rights.bks

(* C27: find_best_move always selects a move.  Whenever find_best_move    *)
(* reaches its return statement, for a non-empty list and a depth of at    *)
(* least 1, it returns an element of the list it was given, also when      *)
(* every candidate's score is plus or minus infinity because a line ends   *)
(* in a position with no legal moves.                                      *)
C27_AlwaysSelectsAMove ==
    hist.op = "find_best_move_return"
      => /\ pc = "returned"
         /\ Len(best_move) = 1
         /\ best_move[1] \in SeqToSet(valid_moves)

(* No pawn can reach its far rank within `depth` moves, so that no search  *)
(* of that depth comes to make_move's promotion prompt and the two         *)
(* searches compared read no input.                                        *)
NoPromotionWithin(gs, depth) ==
    \A sq \in Squares :
        /\ AtSq(gs.board, sq) = <<"w", "P">> => sq[1] > depth
        /\ AtSq(gs.board, sq) = <<"b", "P">> => sq[1] < 7 - depth

(* C28: pruning preserves the result.  For every candidate of             *)
(* find_best_move the value minmax returns when called with alpha = -inf   *)
(* and beta = +inf and the cut-off `beta <= alpha` in place equals the     *)
(* value the same recursion returns with the cut-off removed, and          *)
(* find_best_move selects the same move with and without it.               *)
C28_PruningPreservesResult ==
    (/\ hist.op = "find_best_move_return"
     /\ ~Top.cutoff
     /\ NoPromotionWithin(hist.pre, Top.depth))
      => /\ Top.scores = Top.cutoff_run[1].scores
         /\ Top.best_move = Top.cutoff_run[1].best_move

(* The fields move generation is to leave alone. *)
Undisturbed(gs) ==
    [ board |-> gs.board,
      white_to_move |-> gs.white_to_move,
      white_king_location |-> gs.white_king_location,
      black_king_location |-> gs.black_king_location,
      current_castling_rights |-> gs.current_castling_rights,
      en_passant_possible |-> gs.en_passant_possible,
      move_log |-> gs.move_log,
      castle_rights_log |-> gs.castle_rights_log ]

(* C31: move generation does not disturb the position.  get_valid_moves,   *)
(* with the provisional king relocation of get_king_moves and the          *)
(* temporary flip of the side to move in square_under_attack, returns with *)
(* the board, the side to move, both cached king locations, the castling   *)
(* rights, the en-passant target, the move log and the castle-rights log   *)
(* equal to their values at entry.                                         *)
C31_GenerationKeepsPosition ==
    hist.op = "get_valid_moves" => Undisturbed(gamestate) = Undisturbed(hist.pre)

(***************************************************************************)
(* Static evaluation.  score_board is applied to objects whose board holds *)
(* the two kings and up to two more pieces and whose checkmate and         *)
(* stalemate attributes take both values a bool can have.                  *)
(***************************************************************************)
ScoreInit ==
    /\ \E checkmate \in BOOLEAN, stalemate \in BOOLEAN :
         \E ally \in {"w", "b"}, king \in AllyKingSquares,
            kind \in {"R", "B", "Q", "N", "P"},
            first \in Squares \ {EnemyKingSquare} :
            \E second \in SecondSquares(king), piece \in SecondPieces(ally) :
              /\ first # king /\ first # second
              /\ MayStand(kind, first)
              /\ gamestate =
                    [PositionOf(ally, king, kind, first, piece, second) EXCEPT
                       !.checkmate = checkmate, !.stalemate = stalemate]
    /\ valid_moves = << >>
    /\ hist = [op |-> "object", pre |-> gamestate, round_trip |-> FALSE,
               undone |-> 0]
    /\ pc = "idle"
    /\ stack = << >>
    /\ call = NoCall
    /\ ret = 0
    /\ best_move = << >>

(* score_board(gamestate, PIECE_SCORE, CHECKMATE_SCORE, STALEMATE_SCORE):  *)
(* ret holds what it returns.                                              *)
ScoreBoard ==
    /\ hist.op = "object"
    /\ ret' = score_board(gamestate)
    /\ hist' = [hist EXCEPT !.op = "score_board"]
    /\ UNCHANGED <<gamestate, valid_moves, pc, stack, call, best_move>>

ScoreNext == ScoreBoard

ScoreSpec == ScoreInit /\ [][ScoreNext]_vars

(* The number of squares of the board that hold the piece. *)
CountOf(board, piece) ==
    Cardinality({sq \in Squares : AtSq(board, sq) = piece})

(* White's pieces of a kind minus black's. *)
Balance(board, kind) ==
    CountOf(board, <<"w", kind>>) - CountOf(board, <<"b", kind>>)

(* The material of a board: king 100, queen 9, rook 5, bishop 4, knight 3, *)
(* pawn 1, white positive and black negative.                              *)
Material(board) ==
    100 * Balance(board, "K") + 9 * Balance(board, "Q")
      + 5 * Balance(board, "R") + 4 * Balance(board, "B")
      + 3 * Balance(board, "N") + Balance(board, "P")

(* C32: static evaluation.  score_board returns -1000 when the checkmate   *)
(* flag is set and white is to move, +1000 when it is set and black is to  *)
(* move, 0 when only the stalemate flag is set, and otherwise the sum over *)
(* all squares of the piece values, positive for white and negative for    *)
(* black.                                                                  *)
C32_StaticEvaluation ==
    hist.op = "score_board"
      => ret = (IF gamestate.checkmate
                THEN (IF gamestate.white_to_move THEN -1000 ELSE 1000)
                ELSE IF gamestate.stalemate THEN 0
                ELSE Material(gamestate.board))

(* A position with both flags set and white to move was scored as a lost   *)
(* game for white.                                                         *)
C32_CheckmateBeforeStalemate ==
    /\ hist.op = "score_board"
    /\ gamestate.checkmate
    /\ gamestate.stalemate
    /\ gamestate.white_to_move
    /\ ret = -1000

(* C33: search termination.  For every position and every depth of at     *)
(* least 1 find_best_move returns: the search never ends in an exception,  *)
(* and since each nested minmax call receives a depth one smaller and      *)
(* stops at depth 0, the move log never holds more than depth entries      *)
(* beyond its length at entry while the search runs.                       *)
C33_SearchTerminates ==
    hist.op \in {"find_best_move", "find_best_move_return"}
      => /\ pc # "raised"
         /\ Len(gamestate.move_log)
              <= Len(hist.pre.move_log) + stack[1].depth

(* C34: log invariant.  In every state reached by make_move and undo_move *)
(* calls the castle-rights log has exactly one more entry than the move    *)
(* log, its last entry equals the current castling rights, and white is to *)
(* move exactly when the move log has even length.                         *)
C34_LogInvariant ==
    /\ Len(gamestate.castle_rights_log) = Len(gamestate.move_log) + 1
    /\ gamestate.castle_rights_log[Len(gamestate.castle_rights_log)]
          = gamestate.current_castling_rights
    /\ gamestate.white_to_move <=> Len(gamestate.move_log) % 2 = 0

====
